---- MODULE Spec2Model ----
(***************************************************************************)
(* A model of the GitHub Projects reporter: the item parser                *)
(* (src/processor.py), the metrics engine (src/processor.py) and the       *)
(* snapshot store (src/snapshot.py).                                       *)
(*                                                                         *)
(* Python values are records [t, s, n]: t is the Python type, s the        *)
(* characters of a str (one element per code point) or the elements of a   *)
(* list, n the number of an int.  The code point U+1F525 is written "fire".*)
(***************************************************************************)
EXTENDS Integers, Sequences, FiniteSets, TLC

VARIABLES raw_items,   \* the raw records handed to the parser
          call,        \* the operation that ran last
          ret,         \* what the parser returned, or the exception it raised
          items,       \* the ProjectItem list handed to the metrics engine
          metrics,     \* the ProjectMetrics the engine returned (at most one)
          now,         \* the wall clock, at one-second resolution
          dir_exists,  \* whether the snapshot directory exists
          files,       \* the snapshot directory: filename -> file contents
          saves,       \* history of the save_snapshot calls made so far
          loaded,      \* what load_latest_snapshot or _deserialize_item gave
          current,     \* compare_snapshots: the current item list
          previous,    \* compare_snapshots: the previous item list, or None
          comparison,  \* the dict compare_snapshots returned (at most one)
          run,         \* what the last report run (main) did
          writers,     \* the concurrent save_snapshot calls: where each one is
          disk,        \* the snapshot directory as the written units of each file
          workload,    \* get_workload_color: the count given, the colour returned
          v2           \* what the v2 parser and the v2 metrics engine returned

vars == <<raw_items, call, ret, items, metrics, now, dir_exists, files, saves,
          loaded, current, previous, comparison, run, writers, disk, workload, v2>>

(***************************************************************************)
(* Bounds                                                                  *)
(***************************************************************************)
MaxRaw == 2      \* longest batch of raw records given to parse_items
MaxItems == 2    \* longest item list given to calculate_metrics
MaxSaves == 2    \* most save_snapshot calls in one behaviour

(***************************************************************************)
(* Python values                                                           *)
(***************************************************************************)
PyNone == [t |-> "NoneType", s |-> <<>>, n |-> 0]
PyStr(cs) == [t |-> "str", s |-> cs, n |-> 0]
PyInt(k) == [t |-> "int", s |-> <<>>, n |-> k]
PyList(xs) == [t |-> "list", s |-> xs, n |-> 0]
\* the marker of a key that is not in a dict
KeyAbsent == [t |-> "absent", s |-> <<>>, n |-> 0]

\* bool(v)
Truthy(v) ==
    CASE v.t = "NoneType" -> FALSE
      [] v.t = "str" -> v.s # <<>>
      [] v.t = "list" -> v.s # <<>>
      [] v.t = "int" -> v.n # 0
      [] OTHER -> TRUE

\* dict.get(key, default), on the value stored under the key
Get(v, default) == IF v.t = "absent" THEN default ELSE v

\* str.startswith for a one-character prefix
StartsWith(cs, c) == Len(cs) >= 1 /\ cs[1] = c

(***************************************************************************)
(* src/models.py: the two enumerations                                     *)
(***************************************************************************)
EnumMember(cls, cs) == [t |-> cls, s |-> cs, n |-> 0]

Priority_FIRE == EnumMember("Priority", <<"P", "fire">>)
Priority_P0 == EnumMember("Priority", <<"P", "0">>)
Priority_P1 == EnumMember("Priority", <<"P", "1">>)
Priority_P2 == EnumMember("Priority", <<"P", "2">>)
PriorityMembers == {Priority_FIRE, Priority_P0, Priority_P1, Priority_P2}

Status_BACKLOG == EnumMember("Status", <<"B", "a", "c", "k", "l", "o", "g">>)
Status_TODO == EnumMember("Status", <<"T", "o", "d", "o">>)
Status_PENDING == EnumMember("Status", <<"P", "e", "n", "d", "i", "n", "g">>)
Status_IN_PROGRESS ==
    EnumMember("Status", <<"I", "n", " ", "P", "r", "o", "g", "r", "e", "s", "s">>)
Status_IN_REVIEW ==
    EnumMember("Status", <<"I", "n", " ", "R", "e", "v", "i", "e", "w">>)
Status_DONE == EnumMember("Status", <<"D", "o", "n", "e">>)
StatusMembers == {Status_BACKLOG, Status_TODO, Status_PENDING,
                  Status_IN_PROGRESS, Status_IN_REVIEW, Status_DONE}

\* member.value
Value(member) == PyStr(member.s)

ValueError == [t |-> "ValueError", s |-> <<>>, n |-> 0]

\* Enum.__call__: the member whose value equals v, else ValueError
EnumLookup(members, v) ==
    IF \E m \in members : Value(m) = v
    THEN CHOOSE m \in members : Value(m) = v
    ELSE ValueError

Status(v) == EnumLookup(StatusMembers, v)
Priority(v) == EnumLookup(PriorityMembers, v)

(***************************************************************************)
(* src/processor.py: parse_item, parse_items                               *)
(***************************************************************************)
\* A call's outcome: the exception raised ("none" when it returned) and the
\* items returned.
Returned(its) == [exc |-> "none", items |-> its]
Raised(e) == [exc |-> e, items |-> <<>>]

\* parse_status with the raw value kept when the lookup fails
parse_status_keeps_raw(raw_item) ==
    LET status_value == Get(raw_item.status, Value(Status_BACKLOG))
    IN IF Status(status_value) # ValueError
       THEN Status(status_value)
       ELSE status_value

\* parse_status with Todo as the fallback
parse_status_falls_to_todo(raw_item) ==
    LET status_value == Get(raw_item.status, Value(Status_BACKLOG))
    IN IF Status(status_value) # ValueError
       THEN Status(status_value)
       ELSE Status_TODO

\* status = Status(status_value), Backlog on ValueError
parse_status(raw_item) ==
    LET status_value == Get(raw_item.status, Value(Status_BACKLOG))
    IN IF Status(status_value) # ValueError
       THEN Status(status_value)
       ELSE Status_BACKLOG

\* priority = Priority(priority_value); in the except branch the test
\* "priority_value and priority_value.startswith('P') and len(...) > 2"
\* calls startswith on whatever truthy value it was given.
\* The result is a member, or "AttributeError" when startswith does not exist.
PriorityHasStartswith(v) == v.t = "str"

parse_priority(raw_item) ==
    LET priority_value == Get(raw_item.priority, Value(Priority_P2))
    IN IF Priority(priority_value) # ValueError
       THEN Priority(priority_value)
       ELSE IF ~Truthy(priority_value)
            THEN Priority_P2
            ELSE IF ~PriorityHasStartswith(priority_value)
                 THEN [t |-> "AttributeError", s |-> <<>>, n |-> 0]
                 ELSE IF StartsWith(priority_value.s, "P")
                         /\ Len(priority_value.s) > 2
                      THEN Priority_FIRE
                      ELSE Priority_P2

\* content = raw_item.get('content', {}); content.get(...) needs a dict
EmptyContent ==
    [t |-> "dict", url |-> KeyAbsent, repository |-> KeyAbsent, number |-> KeyAbsent]

parse_item(raw_item) ==
    LET content == IF raw_item.content.t = "absent"
                   THEN EmptyContent
                   ELSE raw_item.content
        status == parse_status(raw_item)
        priority == parse_priority(raw_item)
    IN IF priority.t = "AttributeError"
       THEN Raised("AttributeError")
       ELSE IF content.t # "dict"
            THEN Raised("AttributeError")
            ELSE Returned(<<[id |-> Get(raw_item.id, PyStr(<<>>)),
                             title |-> Get(raw_item.title, PyStr(<<>>)),
                             status |-> status,
                             priority |-> priority,
                             assignees |-> Get(raw_item.assignees, PyList(<<>>)),
                             estimate_hours |-> Get(raw_item.estimate, PyNone),
                             labels |-> Get(raw_item.labels, PyList(<<>>)),
                             url |-> Get(content.url, PyStr(<<>>)),
                             repository |-> Get(content.repository, PyStr(<<>>)),
                             issue_number |-> Get(content.number, PyNone)]>>)

\* [parse_item(item) for item in raw_items]: the first exception ends the loop
RECURSIVE parse_items(_)
parse_items(raws) ==
    IF raws = <<>>
    THEN Returned(<<>>)
    ELSE LET head == parse_item(Head(raws))
         IN IF head.exc # "none"
            THEN head
            ELSE LET rest == parse_items(Tail(raws))
                 IN IF rest.exc # "none"
                    THEN rest
                    ELSE Returned(head.items \o rest.items)

(***************************************************************************)
(* src/processor.py: the metrics engine.                                   *)
(* A dict is a function from its keys.  A percentage, which the code       *)
(* rounds to one decimal, is held in tenths of a percent (33.3 is 333);    *)
(* hours are whole numbers.  "sum(1 for item in items if P(item))" is the  *)
(* cardinality of the set of positions whose item satisfies P, and a       *)
(* filtering list comprehension is SelectSeq.                              *)
(***************************************************************************)
EmptyDict == [k \in {} |-> <<>>]

\* is_planned with P0 taken for unplanned too
is_planned_below_P0(item) == item.priority \notin {Priority_FIRE, Priority_P0}

\* ProjectItem.is_planned
is_planned(item) == item.priority # Priority_FIRE

\* round(num / den * 100, 1), in tenths of a percent; ties go to the even tenth
Round1(num, den) ==
    LET q == (num * 1000) \div den
        r == (num * 1000) % den
    IN IF 2 * r < den THEN q
       ELSE IF 2 * r > den THEN q + 1
       ELSE IF q % 2 = 0 THEN q ELSE q + 1

\* round(num / den * 100, 1) if den > 0 else 0.0
Percentage(num, den) == IF den > 0 THEN Round1(num, den) ELSE 0

\* GroupAdd with the group replaced instead of extended
GroupAdd_overwrites(grouped, key, item) ==
    IF key \in DOMAIN grouped
    THEN [grouped EXCEPT ![key] = <<item>>]
    ELSE grouped @@ (key :> <<item>>)

\* if key not in grouped: grouped[key] = []; grouped[key].append(item)
GroupAdd(grouped, key, item) ==
    IF key \in DOMAIN grouped
    THEN [grouped EXCEPT ![key] = Append(@, item)]
    ELSE grouped @@ (key :> <<item>>)

RECURSIVE GroupByStatusLoop(_, _)
GroupByStatusLoop(grouped, its) ==
    IF its = <<>>
    THEN grouped
    ELSE GroupByStatusLoop(GroupAdd(grouped, Value(Head(its).status), Head(its)),
                           Tail(its))

group_by_status(its) == GroupByStatusLoop(EmptyDict, its)

RECURSIVE GroupByPriorityLoop(_, _)
GroupByPriorityLoop(grouped, its) ==
    IF its = <<>>
    THEN grouped
    ELSE GroupByPriorityLoop(GroupAdd(grouped, Value(Head(its).priority), Head(its)),
                             Tail(its))

group_by_priority(its) == GroupByPriorityLoop(EmptyDict, its)

\* AddToAssignees with the item filed under its first assignee only
AddToAssignees_first_only(grouped, names, item) ==
    IF names = <<>> THEN grouped ELSE GroupAdd(grouped, Head(names), item)

\* for assignee in item.assignees: ... grouped[assignee].append(item)
RECURSIVE AddToAssignees(_, _, _)
AddToAssignees(grouped, names, item) ==
    IF names = <<>>
    THEN grouped
    ELSE AddToAssignees(GroupAdd(grouped, Head(names), item), Tail(names), item)

RECURSIVE GroupByAssigneeLoop(_, _)
GroupByAssigneeLoop(grouped, its) ==
    IF its = <<>>
    THEN grouped
    ELSE LET item == Head(its)
         IN GroupByAssigneeLoop(
                IF ~Truthy(item.assignees)
                THEN GroupAdd(grouped, "Unassigned", item)
                ELSE AddToAssignees(grouped, item.assignees.s, item),
                Tail(its))

group_by_assignee(its) == GroupByAssigneeLoop(EmptyDict, its)

\* sum(item.estimate_hours for item in items if item.estimate_hours is not None)
RECURSIVE SumEstimates(_)
SumEstimates(its) ==
    IF its = <<>>
    THEN 0
    ELSE (IF Head(its).estimate_hours # PyNone THEN Head(its).estimate_hours.n ELSE 0)
         + SumEstimates(Tail(its))

IsDone(item) == item.status = Status_DONE
IsTodo(item) == item.status = Status_TODO
IsFire(item) == item.priority = Priority_FIRE

calculate_todo_count(its) == Cardinality({i \in 1..Len(its) : IsTodo(its[i])})

calculate_done_active_count(its) == Cardinality({i \in 1..Len(its) : IsDone(its[i])})

\* calculate_unplanned_done_stats with the percentage taken of all items
calculate_unplanned_done_stats_of_all(its) ==
    LET done_items == SelectSeq(its, IsDone)
        unplanned_done ==
            Cardinality({i \in 1..Len(done_items) : IsFire(done_items[i])})
    IN IF Len(done_items) = 0
       THEN <<0, 0>>
       ELSE <<Round1(unplanned_done, Len(its)), unplanned_done>>

\* returns (percentage, count)
calculate_unplanned_done_stats(its) ==
    LET done_items == SelectSeq(its, IsDone)
        total_done == Len(done_items)
        unplanned_done ==
            Cardinality({i \in 1..Len(done_items) : IsFire(done_items[i])})
    IN IF total_done = 0
       THEN <<0, 0>>
       ELSE <<Round1(unplanned_done, total_done), unplanned_done>>

\* EmptyMetrics with an empty "Unassigned" group in the assignee map
EmptyMetrics_with_unassigned_group ==
    [total_items |-> 0, total_estimate_hours |-> 0, completion_percentage |-> 0,
     planned_count |-> 0, unplanned_count |-> 0, unplanned_percentage |-> 0,
     high_priority_not_started |-> 0,
     items_by_status |-> EmptyDict, items_by_priority |-> EmptyDict,
     items_by_assignee |-> ("Unassigned" :> <<>>),
     active_items |-> 0, active_completion_percentage |-> 0,
     pending_items |-> 0, in_progress_items |-> 0,
     active_unplanned_percentage |-> 0, active_unplanned_count |-> 0,
     todo_items |-> 0, done_active_items |-> 0,
     unplanned_done_percentage |-> 0, unplanned_done_count |-> 0]

\* the ProjectMetrics returned "if not items"
EmptyMetrics ==
    [total_items |-> 0, total_estimate_hours |-> 0, completion_percentage |-> 0,
     planned_count |-> 0, unplanned_count |-> 0, unplanned_percentage |-> 0,
     high_priority_not_started |-> 0,
     items_by_status |-> EmptyDict, items_by_priority |-> EmptyDict,
     items_by_assignee |-> EmptyDict,
     active_items |-> 0, active_completion_percentage |-> 0,
     pending_items |-> 0, in_progress_items |-> 0,
     active_unplanned_percentage |-> 0, active_unplanned_count |-> 0,
     todo_items |-> 0, done_active_items |-> 0,
     unplanned_done_percentage |-> 0, unplanned_done_count |-> 0]

\* HighPriorityNotStarted with P1 counted as high priority
HighPriorityNotStarted_with_P1(item) ==
    /\ item.priority \in {Priority_FIRE, Priority_P0, Priority_P1}
    /\ item.status \in {Status_BACKLOG, Status_TODO}

\* item.priority in [Priority.FIRE, Priority.P0]
\* and item.status in [Status.BACKLOG, Status.TODO]
HighPriorityNotStarted(item) ==
    /\ item.priority \in {Priority_FIRE, Priority_P0}
    /\ item.status \in {Status_BACKLOG, Status_TODO}

calculate_metrics(its) ==
    IF its = <<>>
    THEN EmptyMetrics
    ELSE
    LET total_items == Len(its)
        done_items == Cardinality({i \in 1..Len(its) : IsDone(its[i])})
        NotPlanned(item) == ~is_planned(item)
        unplanned_count == Cardinality({i \in 1..Len(its) : NotPlanned(its[i])})
        NotBacklog(item) == item.status # Status_BACKLOG
        active_items_list == SelectSeq(its, NotBacklog)
        active_items == Len(active_items_list)
        active_done ==
            Cardinality({i \in 1..Len(active_items_list) :
                            IsDone(active_items_list[i])})
        IsPending(item) == item.status = Status_PENDING
        IsInProgress(item) == item.status = Status_IN_PROGRESS
        active_unplanned_count ==
            Cardinality({i \in 1..Len(active_items_list) :
                            NotPlanned(active_items_list[i])})
        unplanned_done == calculate_unplanned_done_stats(its)
    IN [total_items |-> total_items,
        total_estimate_hours |-> SumEstimates(its),
        completion_percentage |-> Percentage(done_items, total_items),
        planned_count |-> total_items - unplanned_count,
        unplanned_count |-> unplanned_count,
        unplanned_percentage |-> Percentage(unplanned_count, total_items),
        high_priority_not_started |->
            Cardinality({i \in 1..Len(its) : HighPriorityNotStarted(its[i])}),
        items_by_status |-> group_by_status(its),
        items_by_priority |-> group_by_priority(its),
        items_by_assignee |-> group_by_assignee(its),
        active_items |-> active_items,
        active_completion_percentage |-> Percentage(active_done, active_items),
        pending_items |-> Cardinality({i \in 1..Len(its) : IsPending(its[i])}),
        in_progress_items |->
            Cardinality({i \in 1..Len(its) : IsInProgress(its[i])}),
        active_unplanned_percentage |->
            Percentage(active_unplanned_count, active_items),
        active_unplanned_count |-> active_unplanned_count,
        todo_items |-> calculate_todo_count(its),
        done_active_items |-> calculate_done_active_count(its),
        unplanned_done_percentage |-> unplanned_done[1],
        unplanned_done_count |-> unplanned_done[2]]

(***************************************************************************)
(* src/snapshot.py: the snapshot store.                                    *)
(* A time is <<year, month, day, hour, minute, second>>; a filename is the *)
(* sequence of its code points, which is what Python compares strings by.  *)
(***************************************************************************)
\* n in decimal without leading zeros
RECURSIVE Unpadded(_, _)
Unpadded(n, width) ==
    IF n < 10 THEN <<48 + n>> ELSE Unpadded(n \div 10, width) \o <<48 + (n % 10)>>

\* n in decimal, zero-padded to width digits: %Y (years 1000..9999), %m, %d,
\* %H, %M, %S
RECURSIVE ZeroPad(_, _)
ZeroPad(n, width) ==
    IF width = 0 THEN <<>> ELSE ZeroPad(n \div 10, width - 1) \o <<48 + (n % 10)>>

Chars_snapshot_dash == <<115, 110, 97, 112, 115, 104, 111, 116, 45>>  \* "snapshot-"
Chars_dot_json == <<46, 106, 115, 111, 110>>                          \* ".json"

\* timestamp.strftime("snapshot-%Y%m%d-%H%M%S.json")
strftime(timestamp) ==
    Chars_snapshot_dash
    \o ZeroPad(timestamp[1], 4) \o ZeroPad(timestamp[2], 2) \o ZeroPad(timestamp[3], 2)
    \o <<45>>
    \o ZeroPad(timestamp[4], 2) \o ZeroPad(timestamp[5], 2) \o ZeroPad(timestamp[6], 2)
    \o Chars_dot_json

\* _serialize_item with "item.estimate_hours or 0"
_serialize_item_zero_estimate(item) ==
    [id |-> item.id,
     title |-> item.title,
     status |-> Value(item.status),
     priority |-> Value(item.priority),
     assignees |-> item.assignees,
     estimate_hours |-> IF Truthy(item.estimate_hours)
                        THEN item.estimate_hours ELSE PyInt(0),
     labels |-> item.labels,
     url |-> item.url,
     repository |-> item.repository,
     issue_number |-> item.issue_number]

_serialize_item(item) ==
    [id |-> item.id,
     title |-> item.title,
     status |-> Value(item.status),
     priority |-> Value(item.priority),
     assignees |-> item.assignees,
     estimate_hours |-> item.estimate_hours,
     labels |-> item.labels,
     url |-> item.url,
     repository |-> item.repository,
     issue_number |-> item.issue_number]

\* snapshot_data, as json.dump writes it
snapshot_data(timestamp, its) ==
    [timestamp |-> timestamp,
     items |-> [i \in 1..Len(its) |-> _serialize_item(its[i])]]

\* open(filepath, 'w') and json.dump: the file is created, or truncated and
\* rewritten when it is there already
WriteFile(dir, filename, data) ==
    [f \in DOMAIN dir \cup {filename} |-> IF f = filename THEN data ELSE dir[f]]

\* str < str
RECURSIVE LexLess(_, _)
LexLess(a, b) ==
    IF b = <<>> THEN FALSE
    ELSE IF a = <<>> THEN TRUE
    ELSE IF Head(a) # Head(b) THEN Head(a) < Head(b)
    ELSE LexLess(Tail(a), Tail(b))

\* json.dump: the JSON type each Python value is written as
ToJson(v) ==
    [v EXCEPT !.t = CASE v.t = "str" -> "string"
                      [] v.t = "int" -> "number"
                      [] v.t = "NoneType" -> "null"
                      [] v.t = "list" -> "array"
                      [] OTHER -> v.t]

\* json.load: the Python value each JSON value is read as
FromJson(j) ==
    [j EXCEPT !.t = CASE j.t = "string" -> "str"
                      [] j.t = "number" -> "int"
                      [] j.t = "null" -> "NoneType"
                      [] j.t = "array" -> "list"
                      [] OTHER -> j.t]

json_dump(data) ==
    [timestamp |-> data.timestamp,
     items |-> [i \in 1..Len(data.items) |->
                   [k \in DOMAIN data.items[i] |-> ToJson(data.items[i][k])]]]

json_load(text) ==
    [timestamp |-> text.timestamp,
     items |-> [i \in 1..Len(text.items) |->
                   [k \in DOMAIN text.items[i] |-> FromJson(text.items[i][k])]]]

IsPrefix(a, b) == Len(a) <= Len(b) /\ SubSeq(b, 1, Len(a)) = a
IsSuffix(a, b) == Len(a) <= Len(b) /\ SubSeq(b, Len(b) - Len(a) + 1, Len(b)) = a

\* Glob with the pattern "*.json"
Glob_any_json(names) == {f \in names : IsSuffix(Chars_dot_json, f)}

\* snapshot_path.glob("snapshot-*.json")
Glob(names) ==
    {f \in names : /\ Len(f) >= Len(Chars_snapshot_dash) + Len(Chars_dot_json)
                   /\ IsPrefix(Chars_snapshot_dash, f)
                   /\ IsSuffix(Chars_dot_json, f)}

\* LatestSnapshot with min in place of max
OldestSnapshot(names) ==
    CHOOSE f \in names : \A g \in names : g = f \/ LexLess(f, g)

\* max(snapshot_files, key=lambda p: p.name)
LatestSnapshot(names) ==
    CHOOSE f \in names : \A g \in names : g = f \/ LexLess(g, f)

\* The outcome of a load: the exception raised ("none" when it returned),
\* whether None was returned, the items returned and the file that was read.
LoadedNone == [exc |-> "none", none |-> TRUE, items |-> <<>>, file |-> <<>>]
Loaded(its, f) == [exc |-> "none", none |-> FALSE, items |-> its, file |-> f]
LoadRaised(e, f) == [exc |-> e, none |-> FALSE, items |-> <<>>, file |-> f]

\* data[k] raises KeyError for one of the keys
MissingBefore(data, keys) ==
    \E k \in keys : data[k].t = "absent"

\* _deserialize_item with the parser's recovery rules applied to the enums
_deserialize_item_recovering(data) ==
    Returned(<<[id |-> data.id, title |-> data.title,
                status |-> parse_status(data),
                priority |-> IF parse_priority(data).t = "AttributeError"
                             THEN Priority_P2 ELSE parse_priority(data),
                assignees |-> data.assignees,
                estimate_hours |-> data.estimate_hours,
                labels |-> data.labels, url |-> data.url,
                repository |-> data.repository,
                issue_number |-> data.issue_number]>>)

\* ProjectItem(id=data["id"], ..., status=Status(data["status"]), ...): the
\* arguments are evaluated in order, and the first failure is raised
_deserialize_item(data) ==
    IF MissingBefore(data, {"id", "title", "status"})
    THEN Raised("KeyError")
    ELSE IF Status(data.status) = ValueError
    THEN Raised("ValueError")
    ELSE IF MissingBefore(data, {"priority"})
    THEN Raised("KeyError")
    ELSE IF Priority(data.priority) = ValueError
    THEN Raised("ValueError")
    ELSE IF MissingBefore(data, {"assignees", "estimate_hours", "labels", "url",
                                 "repository", "issue_number"})
    THEN Raised("KeyError")
    ELSE Returned(<<[id |-> data.id,
                     title |-> data.title,
                     status |-> Status(data.status),
                     priority |-> Priority(data.priority),
                     assignees |-> data.assignees,
                     estimate_hours |-> data.estimate_hours,
                     labels |-> data.labels,
                     url |-> data.url,
                     repository |-> data.repository,
                     issue_number |-> data.issue_number]>>)

\* [_deserialize_item(item_data) for item_data in data["items"]]
RECURSIVE DeserializeAll(_)
DeserializeAll(datas) ==
    IF datas = <<>>
    THEN Returned(<<>>)
    ELSE LET head == _deserialize_item(Head(datas))
         IN IF head.exc # "none"
            THEN head
            ELSE LET rest == DeserializeAll(Tail(datas))
                 IN IF rest.exc # "none"
                    THEN rest
                    ELSE Returned(head.items \o rest.items)

\* load_latest_snapshot, on a directory that exists or not and holds dir
load_latest_snapshot(exists, dir) ==
    LET snapshot_files == Glob(DOMAIN dir)
    IN IF ~exists
       THEN LoadedNone
       ELSE IF snapshot_files = {}
            THEN LoadedNone
            ELSE LET latest_snapshot == LatestSnapshot(snapshot_files)
                     data == json_load(dir[latest_snapshot])
                     its == DeserializeAll(data.items)
                 IN IF its.exc # "none"
                    THEN LoadRaised(its.exc, latest_snapshot)
                    ELSE Loaded(its.items, latest_snapshot)

(***************************************************************************)
(* Inputs of the parser: raw records as the data source adapter delivers   *)
(* them (decoded JSON: any key may be missing, null or of any JSON type)   *)
(***************************************************************************)
Chars_InvalidStatus ==
    <<"I", "n", "v", "a", "l", "i", "d", "S", "t", "a", "t", "u", "s">>
Chars_InvalidPriority ==
    <<"I", "n", "v", "a", "l", "i", "d", "P", "r", "i", "o", "r", "i", "t", "y">>
Chars_FireCorrupted ==
    <<"P", "fire", "c", "o", "r", "r", "u", "p", "t", "e", "d">>

RawStatusValues ==
    {KeyAbsent, PyNone, PyStr(<<>>), PyStr(Chars_InvalidStatus),
     PyStr(<<"d", "o", "n", "e">>), PyInt(5), PyList(<<>>)}
    \cup {Value(m) : m \in StatusMembers}

RawPriorityValues ==
    {KeyAbsent, PyNone, PyStr(<<>>), PyStr(Chars_FireCorrupted),
     PyStr(Chars_InvalidPriority), PyStr(<<"P">>), PyStr(<<"P", "3">>),
     PyStr(<<"P", "x", "x">>), PyInt(0), PyInt(5), PyList(<<>>),
     PyList(<<"P0">>)}
    \cup {Value(m) : m \in PriorityMembers}

FullContent ==
    [t |-> "dict", url |-> PyStr(<<"u">>), repository |-> PyStr(<<"r">>),
     number |-> PyInt(7)]
RawContentValues ==
    {EmptyContent, FullContent,
     [EmptyContent EXCEPT !.t = "absent"], [EmptyContent EXCEPT !.t = "NoneType"]}

\* the fields parse_item passes through: all present, or all missing
RawRecord(present, st, pr, co) ==
    [id |-> IF present THEN PyStr(<<"1">>) ELSE KeyAbsent,
     title |-> IF present THEN PyStr(<<"T">>) ELSE KeyAbsent,
     status |-> st,
     priority |-> pr,
     assignees |-> IF present THEN PyList(<<"alice">>) ELSE KeyAbsent,
     estimate |-> IF present THEN PyInt(3) ELSE KeyAbsent,
     labels |-> IF present THEN PyList(<<"bug">>) ELSE KeyAbsent,
     content |-> co]

RawRecords ==
    {RawRecord(present, st, pr, co) :
        present \in BOOLEAN, st \in RawStatusValues,
        pr \in RawPriorityValues, co \in RawContentValues}

\* the records batches are made of
BatchRecords ==
    {RawRecord(TRUE, Value(Status_DONE), Value(Priority_P1), FullContent),
     RawRecord(TRUE, PyStr(Chars_InvalidStatus), PyStr(Chars_FireCorrupted),
               EmptyContent),
     RawRecord(FALSE, KeyAbsent, KeyAbsent, [EmptyContent EXCEPT !.t = "absent"]),
     RawRecord(TRUE, Value(Status_TODO), PyInt(5), FullContent),
     RawRecord(TRUE, Value(Status_TODO), Value(Priority_FIRE),
               [EmptyContent EXCEPT !.t = "NoneType"])}

SeqsUpTo(S, n) == UNION {[1..k -> S] : k \in 0..n}

(***************************************************************************)
(* Values the variables of the other components hold while one component   *)
(* is exercised                                                            *)
(***************************************************************************)
NoCall == [op |-> "none", arg |-> 0]
NoFiles == [f \in {} |-> <<>>]
Epoch == <<2025, 9, 9, 9, 9, 9>>
ClockValues ==
    {<<y, mo, 9, 9, 9, sec>> :
        y \in {2025, 2026}, mo \in {9, 10}, sec \in {9, 10}}

ParserIdle == raw_items = <<>> /\ ret = Returned(<<>>)
MetricsIdle == items = <<>> /\ metrics = <<>>
StoreIdle == now = Epoch /\ dir_exists = FALSE /\ files = NoFiles /\ saves = <<>>
NoLoad == [exc |-> "none", none |-> FALSE, items |-> <<>>, file |-> <<>>]
LoaderIdle == loaded = NoLoad
NoPrevious == [none |-> TRUE, items |-> <<>>]
DiffIdle == current = <<>> /\ previous = NoPrevious /\ comparison = <<>>
\* no run yet.  A run records how many runs there were, its exit code, the
\* stage it ended in, the exception that ended it, the calls it made in
\* order, the snapshot file it wrote, whether it wrote the report, the
\* --no-snapshot flag as line 155 read it, the file it read as the previous
\* snapshot, the directory as it was before the run, and how the fetch ended.
NoRun ==
    [number |-> 0, exit_code |-> 0, fetch |-> [at |-> "none", exc |-> "none"], stage |-> "none", error |-> "none", calls |-> <<>>,
     snapshot |-> <<>>, report |-> FALSE, no_snapshot |-> FALSE,
     previous_file |-> <<>>, before |-> [exists |-> FALSE, files |-> NoFiles]]
RunIdle == run = NoRun
Writers == {1, 2}
NoWriter ==
    [pc |-> "idle", items |-> <<>>, timestamp |-> <<>>, filename |-> <<>>,
     written |-> 0]
WritersIdle == writers = [w \in Writers |-> NoWriter] /\ disk = NoFiles
NoColor == [count |-> 0, color |-> "none"]
ColorIdle == workload = NoColor
\* the v2 pipeline before any call: the ProjectItemV2 list it is given, whether
\* parse_item_v2 was called, what it returned, and the metrics computed
NoV2 == [items |-> <<>>, parsed |-> FALSE, ret |-> Returned(<<>>), metrics |-> <<>>]
V2Idle == v2 = NoV2

(***************************************************************************)
(* The parser, applied to bounded inputs                                   *)
(***************************************************************************)
ParserInit ==
    /\ raw_items \in {<<r>> : r \in RawRecords} \cup SeqsUpTo(BatchRecords, MaxRaw)
    /\ call = NoCall
    /\ ret = Returned(<<>>)
    /\ MetricsIdle
    /\ StoreIdle
    /\ LoaderIdle
    /\ DiffIdle
    /\ RunIdle
    /\ WritersIdle
    /\ ColorIdle
    /\ V2Idle

CallParseItem ==
    /\ \E i \in 1..Len(raw_items) :
          /\ call' = [op |-> "parse_item", arg |-> i]
          /\ ret' = parse_item(raw_items[i])
    /\ UNCHANGED <<raw_items, items, metrics, now, dir_exists, files, saves,
                 loaded, current, previous, comparison, run,
                 writers, disk, workload, v2>>

CallParseItems ==
    /\ call' = [op |-> "parse_items", arg |-> 0]
    /\ ret' = parse_items(raw_items)
    /\ UNCHANGED <<raw_items, items, metrics, now, dir_exists, files, saves,
                 loaded, current, previous, comparison, run,
                 writers, disk, workload, v2>>

ParserNext == CallParseItem \/ CallParseItems

ParserSpec == ParserInit /\ [][ParserNext]_vars

\* the record the last parse_item call was given
ParsedRecord == raw_items[call.arg]
AfterParseItem == call.op = "parse_item"
AfterParseItems == call.op = "parse_items"

(***************************************************************************)
(* Properties of the parser                                                *)
(***************************************************************************)
\* C1: every Item that parse_item or parse_items returns has a status that
\* is one of the six Status members and a priority that is one of the four
\* Priority members; no raw value is stored in either field.
C1_ItemFieldsAreEnumMembers ==
    (AfterParseItem \/ AfterParseItems) =>
        \A i \in 1..Len(ret.items) :
            /\ ret.items[i].status \in StatusMembers
            /\ ret.items[i].priority \in PriorityMembers

\* an Item was returned for a record whose status and priority strings are
\* both unknown to the enumerations
C1_Witness ==
    /\ AfterParseItem
    /\ Len(ret.items) = 1
    /\ ParsedRecord.status = PyStr(Chars_InvalidStatus)
    /\ ParsedRecord.priority = PyStr(Chars_FireCorrupted)

\* C2: parse_item never raises; for every raw record, whatever is absent or
\* malformed in it, the call returns exactly one Item.
C2_ParseItemNeverRaises ==
    AfterParseItem => (ret.exc = "none" /\ Len(ret.items) = 1)

\* The priority the claim C3 assigns to a raw value: the member with that
\* string; else Fire for a non-empty string that starts with P and is longer
\* than 2; else P2.
C3_ClaimedPriority(v) ==
    IF v.t = "str" /\ \E m \in PriorityMembers : m.s = v.s
    THEN CHOOSE m \in PriorityMembers : m.s = v.s
    ELSE IF v.t = "str" /\ v.s # <<>> /\ v.s[1] = "P" /\ Len(v.s) > 2
         THEN Priority_FIRE
         ELSE Priority_P2

\* C3: parse_item gives every raw priority value the priority of the rule
\* above (stated for the records whose content object is usable, so that the
\* priority rule alone decides).
C3_PriorityMappedAsClaimed ==
    (AfterParseItem /\ ParsedRecord.content.t \in {"absent", "dict"}) =>
        /\ Len(ret.items) = 1
        /\ ret.items[1].priority = C3_ClaimedPriority(ParsedRecord.priority)

\* The status the claim C4 assigns to a raw value: the member with that
\* string, and Backlog for everything else.
C4_ClaimedStatus(v) ==
    IF v.t = "str" /\ \E m \in StatusMembers : m.s = v.s
    THEN CHOOSE m \in StatusMembers : m.s = v.s
    ELSE Status_BACKLOG

\* C4: the Item parse_item returns has the member a recognised raw status
\* names and Backlog for every other raw status (unknown string, None,
\* missing key, non-string); and no raw status makes parse_item raise: it
\* raises only for an unusable content object or a truthy non-string priority.
C4_StatusMappedAsClaimed ==
    AfterParseItem =>
        /\ ret.exc = "none" =>
              /\ Len(ret.items) = 1
              /\ ret.items[1].status = C4_ClaimedStatus(ParsedRecord.status)
        /\ ret.exc # "none" =>
              \/ ParsedRecord.content.t \notin {"absent", "dict"}
              \/ /\ ParsedRecord.priority.t \notin {"str", "absent"}
                 /\ Truthy(ParsedRecord.priority)

\* an unknown status string was parsed and came out as Backlog
C4_Witness ==
    /\ AfterParseItem
    /\ ParsedRecord.status = PyStr(Chars_InvalidStatus)
    /\ Len(ret.items) = 1
    /\ ret.items[1].status = Status_BACKLOG

\* C5: for every input sequence parse_items returns a list as long as the
\* input whose i-th element is what parse_item returns for the i-th record.
C5_ParseItemsKeepsEveryRecord ==
    AfterParseItems =>
        /\ ret.exc = "none"
        /\ Len(ret.items) = Len(raw_items)
        /\ \A i \in 1..Len(raw_items) :
               parse_item(raw_items[i]) = Returned(<<ret.items[i]>>)

(***************************************************************************)
(* The metrics engine, applied to bounded inputs                           *)
(***************************************************************************)
MkItem(id, st, pr, who, est) ==
    [id |-> PyStr(<<id>>), title |-> PyStr(<<"T">>), status |-> st,
     priority |-> pr, assignees |-> PyList(who), estimate_hours |-> est,
     labels |-> PyList(<<>>), url |-> PyStr(<<>>), repository |-> PyStr(<<>>),
     issue_number |-> PyNone]

\* who an item is assigned to and what it is estimated at
Assignments ==
    {<<(<<>>), PyNone>>, <<(<<"alice">>), PyInt(2)>>, <<(<<"alice", "bob">>), PyInt(3)>>}

ItemPool ==
    {MkItem("1", st, pr, a[1], a[2]) :
        st \in StatusMembers, pr \in PriorityMembers, a \in Assignments}

MetricsInit ==
    /\ items \in SeqsUpTo(ItemPool, MaxItems)
    /\ metrics = <<>>
    /\ call = NoCall
    /\ ParserIdle
    /\ StoreIdle
    /\ LoaderIdle
    /\ DiffIdle
    /\ RunIdle
    /\ WritersIdle
    /\ ColorIdle
    /\ V2Idle

CallCalculateMetrics ==
    /\ call' = [op |-> "calculate_metrics", arg |-> 0]
    /\ metrics' = <<calculate_metrics(items)>>
    /\ UNCHANGED <<raw_items, ret, items, now, dir_exists, files, saves,
                 loaded, current, previous, comparison, run,
                 writers, disk, workload, v2>>

MetricsNext == CallCalculateMetrics

MetricsSpec == MetricsInit /\ [][MetricsNext]_vars

AfterCalculateMetrics == call.op = "calculate_metrics"

\* the sum of the sizes of a dict's groups
RECURSIVE SumOfSizes(_, _)
SumOfSizes(grouped, keys) ==
    IF keys = {}
    THEN 0
    ELSE LET k == CHOOSE x \in keys : TRUE
         IN Len(grouped[k]) + SumOfSizes(grouped, keys \ {k})

GroupSizes(grouped) == SumOfSizes(grouped, DOMAIN grouped)

Range(f) == {f[x] : x \in DOMAIN f}

(***************************************************************************)
(* Properties of the metrics engine                                        *)
(***************************************************************************)
\* C6: for every non-empty item list, the metrics returned have
\* planned_count + unplanned_count = total_items, and the group sizes of
\* items_by_status and of items_by_priority each add up to total_items.
C6_CountsAddUp ==
    (AfterCalculateMetrics /\ items # <<>>) =>
        LET m == metrics[1]
        IN /\ m.total_items = Len(items)
           /\ m.planned_count + m.unplanned_count = m.total_items
           /\ GroupSizes(m.items_by_status) = m.total_items
           /\ GroupSizes(m.items_by_priority) = m.total_items

\* metrics of two items that share a status and a priority
C6_Witness ==
    /\ AfterCalculateMetrics
    /\ Len(items) = 2
    /\ items[1].status = items[2].status
    /\ items[1].priority = Priority_FIRE
    /\ items[2].priority = Priority_FIRE
    /\ metrics[1].unplanned_count = 2

\* C7: group_by_assignee files an item with N >= 1 assignees under exactly
\* its N assignees and an item without assignees under "Unassigned" alone,
\* once each; so the group sizes add up to at least the number of items, and
\* to exactly that number when no item has more than one assignee.
C7_AssigneeGroups ==
    AfterCalculateMetrics =>
        LET g == metrics[1].items_by_assignee
            GroupsOf(item) == {k \in DOMAIN g : item \in Range(g[k])}
            Copies(item) == Cardinality({i \in 1..Len(items) : items[i] = item})
            Filed(item, k) == Cardinality({j \in 1..Len(g[k]) : g[k][j] = item})
        IN /\ \A i \in 1..Len(items) :
                 LET item == items[i]
                     who == item.assignees.s
                 IN /\ who = <<>> => GroupsOf(item) = {"Unassigned"}
                    /\ who # <<>> =>
                          /\ GroupsOf(item) = Range(who)
                          /\ Cardinality(GroupsOf(item)) = Len(who)
                    /\ \A k \in GroupsOf(item) : Filed(item, k) = Copies(item)
           /\ GroupSizes(g) >= Len(items)
           /\ (\A i \in 1..Len(items) : Len(items[i].assignees.s) <= 1)
                 => GroupSizes(g) = Len(items)

\* an unassigned item and an item with two assignees were grouped together
C7_Witness ==
    /\ AfterCalculateMetrics
    /\ Len(items) = 2
    /\ items[1].assignees.s = <<>>
    /\ Len(items[2].assignees.s) = 2
    /\ GroupSizes(metrics[1].items_by_assignee) = 3

\* C8: on the empty list calculate_metrics returns metrics in which every
\* count is 0, every percentage is 0.0, total_estimate_hours is 0.0 and the
\* three groupings are empty maps.
C8_EmptyInputGivesZeroMetrics ==
    (AfterCalculateMetrics /\ items = <<>>) =>
        LET m == metrics[1]
        IN /\ m.total_items = 0
           /\ m.total_estimate_hours = 0
           /\ m.planned_count = 0
           /\ m.unplanned_count = 0
           /\ m.high_priority_not_started = 0
           /\ m.active_items = 0
           /\ m.pending_items = 0
           /\ m.in_progress_items = 0
           /\ m.active_unplanned_count = 0
           /\ m.todo_items = 0
           /\ m.done_active_items = 0
           /\ m.unplanned_done_count = 0
           /\ m.completion_percentage = 0
           /\ m.unplanned_percentage = 0
           /\ m.active_completion_percentage = 0
           /\ m.active_unplanned_percentage = 0
           /\ m.unplanned_done_percentage = 0
           /\ DOMAIN m.items_by_status = {}
           /\ DOMAIN m.items_by_priority = {}
           /\ DOMAIN m.items_by_assignee = {}

\* calculate_metrics has run on the empty list
C8_Witness ==
    /\ AfterCalculateMetrics
    /\ items = <<>>
    /\ Len(metrics) = 1

(***************************************************************************)
(* The snapshot store, under a clock that only moves forward               *)
(***************************************************************************)
\* seconds since the start of the year 2000, in a calendar of 31-day months
Seconds(t) ==
    (((((t[1] - 2000) * 12 + t[2]) * 31 + t[3]) * 24 + t[4]) * 60 + t[5]) * 60 + t[6]

Item_A == MkItem("1", Status_TODO, Priority_P1, <<"alice">>, PyInt(2))
Item_A_done == MkItem("1", Status_DONE, Priority_P1, <<"alice">>, PyInt(2))
Item_B == MkItem("2", Status_BACKLOG, Priority_FIRE, <<>>, PyNone)

\* the item lists that are saved
SnapshotLists == {<<>>, <<Item_A>>, <<Item_A_done, Item_B>>}

\* "summary.json", a file in the directory that is not a snapshot
Chars_summary_json == <<115, 117, 109, 109, 97, 114, 121, 46, 106, 115, 111, 110>>
OtherFileOnly == (Chars_summary_json :> [timestamp |-> Epoch, items |-> <<>>])

\* the directory is missing, empty, or holds a file that is not a snapshot
StoreInit ==
    /\ now = Epoch
    /\ dir_exists \in BOOLEAN
    /\ files \in (IF dir_exists THEN {NoFiles, OtherFileOnly} ELSE {NoFiles})
    /\ saves = <<>>
    /\ call = NoCall
    /\ ParserIdle
    /\ MetricsIdle
    /\ LoaderIdle
    /\ DiffIdle
    /\ RunIdle
    /\ WritersIdle
    /\ ColorIdle
    /\ V2Idle

\* time passes
Tick ==
    /\ \E t \in ClockValues :
          /\ Seconds(now) < Seconds(t)
          /\ now' = t
    /\ UNCHANGED <<raw_items, call, ret, items, metrics, dir_exists, files, saves,
                 loaded, current, previous, comparison, run,
                 writers, disk, workload, v2>>

\* save_snapshot(its); saves records the call: its time, the filename it
\* derived, its argument and the directory as it was before the call
CallSaveSnapshot ==
    /\ Len(saves) < MaxSaves
    /\ \E its \in SnapshotLists :
          LET timestamp == now
              filename == strftime(timestamp)
          IN /\ dir_exists' = TRUE
             /\ files' = WriteFile(files, filename,
                                   json_dump(snapshot_data(timestamp, its)))
             /\ saves' = Append(saves, [time |-> timestamp, filename |-> filename,
                                        items |-> its, before |-> files])
             /\ call' = [op |-> "save_snapshot", arg |-> Len(saves) + 1]
    /\ UNCHANGED <<raw_items, ret, items, metrics, now,
                 loaded, current, previous, comparison, run,
                 writers, disk, workload, v2>>

CallLoadLatestSnapshot ==
    /\ loaded' = load_latest_snapshot(dir_exists, files)
    /\ call' = [op |-> "load_latest_snapshot", arg |-> 0]
    /\ UNCHANGED <<raw_items, ret, items, metrics, now, dir_exists, files, saves,
                 current, previous, comparison, run,
                 writers, disk, workload, v2>>

StoreNext == Tick \/ CallSaveSnapshot \/ CallLoadLatestSnapshot

AfterLoadLatestSnapshot == call.op = "load_latest_snapshot"

StoreSpec == StoreInit /\ [][StoreNext]_vars

(***************************************************************************)
(* Properties of the snapshot store                                        *)
(***************************************************************************)
\* C9: every save_snapshot call creates a file whose name did not exist
\* before the call, and no snapshot file written earlier ever changes; so k
\* saves leave k distinct snapshot files.
C9_EverySaveMakesNewFile ==
    /\ \A k \in 1..Len(saves) :
          /\ saves[k].filename \notin DOMAIN saves[k].before
          /\ \A f \in DOMAIN saves[k].before :
                f \in DOMAIN files /\ files[f] = saves[k].before[f]
    /\ Cardinality(Glob(DOMAIN files)) = Len(saves)

\* C10: of any two save_snapshot calls, the one whose capture time lies in a
\* strictly earlier second has the lexicographically smaller filename, and
\* every filename has the fixed width of snapshot-YYYYMMDD-HHMMSS.json.
C10_FilenameOrderIsTimeOrder ==
    \A j, k \in 1..Len(saves) :
        /\ Len(saves[j].filename) = 29
        /\ Seconds(saves[j].time) < Seconds(saves[k].time)
              => LexLess(saves[j].filename, saves[k].filename)

\* a save in month 9 was followed by a save in month 10 of the same year
C10_Witness ==
    /\ Len(saves) >= 2
    /\ saves[1].time[1] = saves[2].time[1]
    /\ saves[1].time[2] = 9
    /\ saves[2].time[2] = 10
    /\ LexLess(saves[1].filename, saves[2].filename)

\* C11: after any sequence of save_snapshot calls, load_latest_snapshot reads
\* the snapshot file with the lexicographically greatest name, which is the
\* file of the most recent save, and returns the item list of that save.
C11_LoadReturnsLastSave ==
    (AfterLoadLatestSnapshot /\ saves # <<>>) =>
        LET last == saves[Len(saves)]
        IN /\ loaded.exc = "none"
           /\ ~loaded.none
           /\ loaded.file = last.filename
           /\ \A f \in Glob(DOMAIN files) : f = loaded.file \/ LexLess(f, loaded.file)
           /\ loaded.items = last.items

\* two snapshots of different seconds and different contents exist and the
\* later one was loaded
C11_Witness ==
    /\ AfterLoadLatestSnapshot
    /\ Len(saves) = 2
    /\ Cardinality(Glob(DOMAIN files)) = 2
    /\ saves[1].items # saves[2].items
    /\ loaded.items = saves[2].items

\* C12: when the directory does not exist or holds no file matching
\* snapshot-*.json, load_latest_snapshot returns None without raising, and
\* the call creates and changes nothing.
C12_LoadOfNothingIsNone ==
    [][(call'.op = "load_latest_snapshot"
        /\ (~dir_exists
            \/ \A f \in DOMAIN files :
                  ~(IsPrefix(Chars_snapshot_dash, f) /\ IsSuffix(Chars_dot_json, f))))
       => /\ loaded'.exc = "none"
          /\ loaded'.none
          /\ dir_exists' = dir_exists
          /\ files' = files]_vars

\* None was returned for a directory that holds only a file that is not a
\* snapshot
C12_Witness ==
    /\ AfterLoadLatestSnapshot
    /\ dir_exists
    /\ files = OtherFileOnly
    /\ loaded = LoadedNone

\* C13: save_snapshot followed by load_latest_snapshot returns a list of the
\* same length and order whose items equal the saved ones in every field.
C13_SaveLoadRoundTrip ==
    (AfterLoadLatestSnapshot /\ saves # <<>>) =>
        LET saved == saves[Len(saves)].items
        IN /\ ~loaded.none
           /\ Len(loaded.items) = Len(saved)
           /\ \A i \in 1..Len(saved) :
                 /\ loaded.items[i].id = saved[i].id
                 /\ loaded.items[i].title = saved[i].title
                 /\ loaded.items[i].status = saved[i].status
                 /\ loaded.items[i].priority = saved[i].priority
                 /\ loaded.items[i].assignees = saved[i].assignees
                 /\ loaded.items[i].estimate_hours = saved[i].estimate_hours
                 /\ loaded.items[i].labels = saved[i].labels
                 /\ loaded.items[i].url = saved[i].url
                 /\ loaded.items[i].repository = saved[i].repository
                 /\ loaded.items[i].issue_number = saved[i].issue_number

\* a list holding a Fire item without estimate was saved and loaded back
C13_Witness ==
    /\ AfterLoadLatestSnapshot
    /\ saves # <<>>
    /\ saves[Len(saves)].items = <<Item_A_done, Item_B>>
    /\ Len(loaded.items) = 2
    /\ loaded.items[2].priority = Priority_FIRE
    /\ loaded.items[2].estimate_hours = PyNone

(***************************************************************************)
(* Deserialization, applied to snapshot files of any content               *)
(***************************************************************************)
MaxStored == 2   \* most items in a stored snapshot file

\* what a stored item may hold as its status and as its priority
StoredStatusValues ==
    {ToJson(Value(Status_DONE)), ToJson(Value(Status_TODO)),
     ToJson(Value(Status_BACKLOG)), ToJson(PyStr(Chars_InvalidStatus)),
     ToJson(PyStr(<<"d", "o", "n", "e">>)), ToJson(PyNone), KeyAbsent}
StoredPriorityValues ==
    {ToJson(Value(Priority_FIRE)), ToJson(Value(Priority_P1)),
     ToJson(Value(Priority_P2)), ToJson(PyStr(Chars_FireCorrupted)),
     ToJson(PyStr(Chars_InvalidPriority)), ToJson(PyStr(<<>>))}

StoredItem(st, pr) ==
    [id |-> ToJson(PyStr(<<"1">>)), title |-> ToJson(PyStr(<<"T">>)),
     status |-> st, priority |-> pr,
     assignees |-> ToJson(PyList(<<"alice">>)),
     estimate_hours |-> ToJson(PyNone), labels |-> ToJson(PyList(<<>>)),
     url |-> ToJson(PyStr(<<>>)), repository |-> ToJson(PyStr(<<>>)),
     issue_number |-> ToJson(PyNone)]

StoredItems ==
    {StoredItem(st, pr) : st \in StoredStatusValues, pr \in StoredPriorityValues}

\* the one snapshot file of the directory
StoredName == strftime(Epoch)

DeserializeInit ==
    /\ now = Epoch
    /\ dir_exists = TRUE
    /\ \E its \in SeqsUpTo(StoredItems, MaxStored) \ {<<>>} :
          files = (StoredName :> [timestamp |-> Epoch, items |-> its])
    /\ saves = <<>>
    /\ call = NoCall
    /\ ParserIdle
    /\ MetricsIdle
    /\ LoaderIdle
    /\ DiffIdle
    /\ RunIdle
    /\ WritersIdle
    /\ ColorIdle
    /\ V2Idle

CallDeserializeItem ==
    /\ \E i \in 1..Len(files[StoredName].items) :
          LET r == _deserialize_item(json_load(files[StoredName]).items[i])
          IN /\ loaded' = IF r.exc = "none"
                          THEN Loaded(r.items, StoredName)
                          ELSE LoadRaised(r.exc, StoredName)
             /\ call' = [op |-> "_deserialize_item", arg |-> i]
    /\ UNCHANGED <<raw_items, ret, items, metrics, now, dir_exists, files, saves,
                 current, previous, comparison, run,
                 writers, disk, workload, v2>>

DeserializeNext == CallDeserializeItem \/ CallLoadLatestSnapshot

DeserializeSpec == DeserializeInit /\ [][DeserializeNext]_vars

AfterDeserializeItem == call.op = "_deserialize_item"

\* the stored item holds a string (or null) that no member of the enumeration
\* has as its value
IllegalStatus(stored) ==
    stored.status # KeyAbsent
    /\ \A m \in StatusMembers : stored.status # ToJson(Value(m))
IllegalPriority(stored) ==
    stored.priority # KeyAbsent
    /\ \A m \in PriorityMembers : stored.priority # ToJson(Value(m))

\* C14: deserializing a stored item whose status or priority is not a legal
\* enum value raises (ValueError, when no key is missing) and yields no Item,
\* for the single item and for the load of the file that holds it; no
\* recovery rule of the parser is applied.
C14_IllegalStoredEnumRaises ==
    /\ AfterDeserializeItem =>
          LET stored == files[StoredName].items[call.arg]
          IN (IllegalStatus(stored) \/ IllegalPriority(stored)) =>
                /\ loaded.exc # "none"
                /\ loaded.items = <<>>
                /\ stored.status # KeyAbsent => loaded.exc = "ValueError"
    /\ (AfterLoadLatestSnapshot /\ StoredName \in DOMAIN files) =>
          LET stored == files[StoredName].items
          IN (\E i \in 1..Len(stored) :
                 IllegalStatus(stored[i]) \/ IllegalPriority(stored[i])) =>
                /\ loaded.exc # "none"
                /\ ~loaded.none
                /\ loaded.items = <<>>

\* a stored item with status Done and the priority string "P" + garbage was
\* deserialized, and ValueError was raised
C14_Witness ==
    /\ AfterDeserializeItem
    /\ files[StoredName].items[call.arg].status = ToJson(Value(Status_DONE))
    /\ files[StoredName].items[call.arg].priority = ToJson(PyStr(Chars_FireCorrupted))
    /\ loaded.exc = "ValueError"
    /\ loaded.items = <<>>

(***************************************************************************)
(* Snapshot comparison                                                     *)
(***************************************************************************)
MaxDiff == 2   \* most items on either side of a comparison

\* {item.id: item for item in its}: a later item replaces an earlier one of
\* the same id
by_id(its) ==
    [i \in {its[k].id : k \in 1..Len(its)} |->
        its[CHOOSE k \in 1..Len(its) :
               /\ its[k].id = i
               /\ \A j \in 1..Len(its) : its[j].id = i => j <= k]]

\* items_completed without the test of the previous status
items_completed_ignoring_previous(current_items, previous_by_id) ==
    Cardinality({k \in 1..Len(current_items) :
        /\ current_items[k].id \in DOMAIN previous_by_id
        /\ current_items[k].status = Status_DONE})

\* the loop that counts the items moved to Done
items_completed(current_items, previous_by_id) ==
    Cardinality({k \in 1..Len(current_items) :
        /\ current_items[k].id \in DOMAIN previous_by_id
        /\ previous_by_id[current_items[k].id].status # Status_DONE
        /\ current_items[k].status = Status_DONE})

\* items_added counting every current id
items_added_counting_all(current_by_id, previous_by_id) ==
    Cardinality(DOMAIN current_by_id)

\* sum(1 for item_id in current_by_id if item_id not in previous_by_id)
items_added(current_by_id, previous_by_id) ==
    Cardinality({i \in DOMAIN current_by_id : i \notin DOMAIN previous_by_id})

\* the entry with the two statuses exchanged
StatusChange_swapped(item, prev_item) ==
    [id |-> item.id, title |-> item.title,
     from_status |-> Value(item.status), to_status |-> Value(prev_item.status)]

\* the dict appended to status_changes
StatusChange(item, prev_item) ==
    [id |-> item.id, title |-> item.title,
     from_status |-> Value(prev_item.status), to_status |-> Value(item.status)]

\* status_changes with an entry for a previous item that current lacks
RECURSIVE status_changes_reporting_removed(_, _)
status_changes_reporting_removed(current_items, previous_by_id) ==
    IF current_items = <<>>
    THEN IF previous_by_id = EmptyDict
         THEN <<>>
         ELSE LET i == CHOOSE i \in DOMAIN previous_by_id : TRUE
              IN <<[id |-> i, title |-> previous_by_id[i].title,
                    from_status |-> Value(previous_by_id[i].status),
                    to_status |-> <<>>]>>
    ELSE LET item == Head(current_items)
             others == [i \in DOMAIN previous_by_id \ {item.id} |-> previous_by_id[i]]
             rest == status_changes_reporting_removed(Tail(current_items), others)
         IN IF item.id \in DOMAIN previous_by_id
               /\ previous_by_id[item.id].status # item.status
            THEN <<StatusChange(item, previous_by_id[item.id])>> \o rest
            ELSE rest

\* the loop that fills status_changes, in the order of current
RECURSIVE status_changes(_, _)
status_changes(current_items, previous_by_id) ==
    IF current_items = <<>>
    THEN <<>>
    ELSE LET item == Head(current_items)
             rest == status_changes(Tail(current_items), previous_by_id)
         IN IF item.id \in DOMAIN previous_by_id
               /\ previous_by_id[item.id].status # item.status
            THEN <<StatusChange(item, previous_by_id[item.id])>> \o rest
            ELSE rest

\* compare_snapshots that takes a missing previous for an empty one
compare_snapshots_none_as_empty(current_items, previous_items) ==
    [items_completed |-> items_completed(current_items, by_id(previous_items.items)),
     items_added |-> items_added(by_id(current_items), by_id(previous_items.items)),
     status_changes |-> status_changes(current_items, by_id(previous_items.items))]

\* compare_snapshots(current, previous); previous is None when
\* previous_items.none
compare_snapshots(current_items, previous_items) ==
    IF previous_items.none
    THEN [items_completed |-> 0, items_added |-> 0, status_changes |-> <<>>]
    ELSE LET previous_by_id == by_id(previous_items.items)
             current_by_id == by_id(current_items)
         IN [items_completed |-> items_completed(current_items, previous_by_id),
             items_added |-> items_added(current_by_id, previous_by_id),
             status_changes |-> status_changes(current_items, previous_by_id)]

\* Items of the two sides: three ids, three statuses; the title tells the side
DiffIds == {"1", "2", "3"}
DiffStatuses == {Status_TODO, Status_IN_PROGRESS, Status_DONE}
DiffItem(id, title, st) ==
    [MkItem(id, st, Priority_P2, <<>>, PyNone) EXCEPT !.title = PyStr(<<title>>)]
UniqueIds(its) ==
    \A i, j \in 1..Len(its) : its[i].id = its[j].id => i = j
\* the lists of at most MaxDiff items in which no id occurs twice
DiffLists(title) ==
    {its \in SeqsUpTo({DiffItem(id, title, st) : id \in DiffIds, st \in DiffStatuses},
                      MaxDiff) : UniqueIds(its)}

DiffInit ==
    /\ current \in DiffLists("T")
    /\ previous \in {NoPrevious}
                    \cup {[none |-> FALSE, items |-> p] : p \in DiffLists("U")}
    /\ comparison = <<>>
    /\ call = NoCall
    /\ ParserIdle
    /\ MetricsIdle
    /\ StoreIdle
    /\ LoaderIdle
    /\ RunIdle
    /\ WritersIdle
    /\ ColorIdle
    /\ V2Idle

CallCompareSnapshots ==
    /\ comparison' = <<compare_snapshots(current, previous)>>
    /\ call' = [op |-> "compare_snapshots", arg |-> 0]
    /\ UNCHANGED <<raw_items, ret, items, metrics, now, dir_exists, files, saves,
                 loaded, current, previous, run,
                 writers, disk, workload, v2>>

DiffNext == CallCompareSnapshots

DiffSpec == DiffInit /\ [][DiffNext]_vars

AfterCompareSnapshots == call.op = "compare_snapshots"

\* the ids of a list of items
Ids(its) == {its[k].id : k \in 1..Len(its)}
\* the item of the list that has the id
ItemOf(its, i) == its[CHOOSE k \in 1..Len(its) : its[k].id = i]

\* C15: with previous = None the comparison gives 0 completed, 0 added and
\* no status change, whatever current holds, and it returns.
C15_NoPreviousGivesEmptyResult ==
    (AfterCompareSnapshots /\ previous.none) =>
        /\ Len(comparison) = 1
        /\ comparison[1].items_completed = 0
        /\ comparison[1].items_added = 0
        /\ comparison[1].status_changes = <<>>

\* current holds two items, one of them Done, and was compared with None
C15_Witness ==
    /\ AfterCompareSnapshots
    /\ previous.none
    /\ Len(current) = 2
    /\ \E k \in 1..2 : current[k].status = Status_DONE
    /\ comparison = <<[items_completed |-> 0, items_added |-> 0,
                       status_changes |-> <<>>]>>

\* C16: with a previous list, items_completed is the number of ids on both
\* sides whose previous status is not Done and whose current status is Done;
\* items already Done before, and items new in current, are not counted.
C16_ItemsCompleted ==
    (AfterCompareSnapshots /\ ~previous.none) =>
        comparison[1].items_completed =
            Cardinality({i \in Ids(current) \cap Ids(previous.items) :
                /\ ItemOf(previous.items, i).status # Status_DONE
                /\ ItemOf(current, i).status = Status_DONE})

\* two Done items in current, one of them Done before and one of them not:
\* one item counted
C16_Witness ==
    /\ AfterCompareSnapshots
    /\ ~previous.none
    /\ Len(current) = 2
    /\ \A k \in 1..2 : current[k].status = Status_DONE
    /\ Ids(previous.items) = Ids(current)
    /\ \E k \in 1..2 : previous.items[k].status = Status_DONE
    /\ \E k \in 1..2 : previous.items[k].status = Status_TODO
    /\ comparison[1].items_completed = 1

\* C17: with a previous list, items_added is the number of ids of current
\* that previous lacks: 0 for an empty current, the size of current for an
\* empty previous.
C17_ItemsAdded ==
    (AfterCompareSnapshots /\ ~previous.none) =>
        /\ comparison[1].items_added =
              Cardinality(Ids(current) \ Ids(previous.items))
        /\ current = <<>> => comparison[1].items_added = 0
        /\ previous.items = <<>> => comparison[1].items_added = Len(current)

\* one id of current is in previous and the other is not: one item added
C17_Witness ==
    /\ AfterCompareSnapshots
    /\ ~previous.none
    /\ Len(current) = 2
    /\ Cardinality(Ids(current) \cap Ids(previous.items)) = 1
    /\ comparison[1].items_added = 1

\* the positions of current whose id previous has with another status
ChangedPositions ==
    {k \in 1..Len(current) :
        /\ current[k].id \in Ids(previous.items)
        /\ ItemOf(previous.items, current[k].id).status # current[k].status}

\* C18: with a previous list, status_changes holds one entry for each id on
\* both sides whose status differs, with the id and title of the current
\* item, the previous status as from_status and the current status as
\* to_status, in the order of current; ids of equal status give no entry.
C18_StatusChanges ==
    (AfterCompareSnapshots /\ ~previous.none) =>
        LET changes == comparison[1].status_changes
        IN /\ Len(changes) = Cardinality(ChangedPositions)
           /\ \A k \in ChangedPositions :
                 LET n == Cardinality({j \in ChangedPositions : j <= k})
                 IN changes[n] =
                       [id |-> current[k].id,
                        title |-> current[k].title,
                        from_status |->
                            Value(ItemOf(previous.items, current[k].id).status),
                        to_status |-> Value(current[k].status)]

\* both items of current changed status, previous lists them the other way
\* round, and the two entries follow the order of current
C18_Witness ==
    /\ AfterCompareSnapshots
    /\ ~previous.none
    /\ Len(current) = 2
    /\ Len(previous.items) = 2
    /\ previous.items[1].id = current[2].id
    /\ previous.items[2].id = current[1].id
    /\ Len(comparison[1].status_changes) = 2
    /\ comparison[1].status_changes[1].id = current[1].id
    /\ comparison[1].status_changes[2].id = current[2].id
    /\ comparison[1].status_changes[1].from_status = Value(Status_TODO)
    /\ comparison[1].status_changes[1].to_status = Value(Status_DONE)

\* previous without its n-th item
WithoutItem(its, n) == SubSeq(its, 1, n - 1) \o SubSeq(its, n + 1, Len(its))

\* C19: an item of previous whose id current lacks does not affect the
\* result: taking such an item out of previous, or putting one in, gives
\* the same items_completed, items_added and status_changes.
C19_RemovedItemsAreIgnored ==
    (AfterCompareSnapshots /\ ~previous.none) =>
        /\ \A n \in 1..Len(previous.items) :
              previous.items[n].id \notin Ids(current) =>
                 compare_snapshots(current,
                     [none |-> FALSE, items |-> WithoutItem(previous.items, n)])
                 = comparison[1]
        /\ \A id \in DiffIds, st \in DiffStatuses :
              LET extra == DiffItem(id, "U", st)
              IN extra.id \notin Ids(current) \cup Ids(previous.items) =>
                    /\ compare_snapshots(current,
                           [none |-> FALSE, items |-> previous.items \o <<extra>>])
                       = comparison[1]
                    /\ compare_snapshots(current,
                           [none |-> FALSE, items |-> <<extra>> \o previous.items])
                       = comparison[1]

\* previous holds an item that current lacks next to one that current has
\* completed
C19_Witness ==
    /\ AfterCompareSnapshots
    /\ ~previous.none
    /\ Len(current) = 1
    /\ Len(previous.items) = 2
    /\ \E n \in 1..2 : previous.items[n].id \notin Ids(current)
    /\ comparison[1].items_completed = 1
    /\ comparison[1].items_added = 0
    /\ Len(comparison[1].status_changes) = 1

(***************************************************************************)
(* src/main.py: one report run.                                            *)
(* What the run cannot decide itself is given by env: whether the          *)
(* configuration validates, where and how the fetch fails, the records the *)
(* data source delivers, the --no-snapshot flag, and whether rendering     *)
(* fails (a template that is missing, an output path that cannot be        *)
(* written).  An outcome o carries the run record and the value of every   *)
(* variable the run sets.                                                  *)
(***************************************************************************)
Called(o, name) == [o EXCEPT !.run.calls = Append(@, name)]
Fail(o, stage, exc) ==
    [o EXCEPT !.run.exit_code = 1, !.run.stage = stage, !.run.error = exc]
\* an exception has been raised: the rest of the try block is skipped
Raising(o) == o.run.exit_code # 0

\* config.validate()
main_config(env, o) ==
    LET o1 == Called(o, "Config.validate")
    IN IF ~env.config_valid
       THEN Fail(o1, "config", "ConfigValidationError")
       ELSE o1

\* main_fetch that takes a failed fetch_project_items for an empty list
main_fetch_going_on(env, o) ==
    LET o1 == [Called(o, "fetch_project_details") EXCEPT !.run.fetch = env.fetch]
        o2 == Called(o1, "fetch_project_items")
    IN IF Raising(o)
       THEN o
       ELSE IF env.fetch.at = "fetch_project_details"
       THEN Fail(o1, "fetch", env.fetch.exc)
       ELSE [o2 EXCEPT !.raw_items = env.raw]

\* fetch_project_details and fetch_project_items; the run records how the
\* data source answered
main_fetch(env, o) ==
    LET o1 == [Called(o, "fetch_project_details") EXCEPT !.run.fetch = env.fetch]
        o2 == Called(o1, "fetch_project_items")
    IN IF Raising(o)
       THEN o
       ELSE IF env.fetch.at = "fetch_project_details"
       THEN Fail(o1, "fetch", env.fetch.exc)
       ELSE IF env.fetch.at = "fetch_project_items"
       THEN Fail(o2, "fetch", env.fetch.exc)
       ELSE [o2 EXCEPT !.raw_items = env.raw]

\* parse_items and calculate_metrics
main_process(env, o) ==
    LET parsed == parse_items(o.raw_items)
        o1 == [Called(o, "parse_items") EXCEPT !.ret = parsed]
    IN IF Raising(o)
       THEN o
       ELSE IF parsed.exc # "none"
       THEN Fail(o1, "parse_items", parsed.exc)
       ELSE [Called(o1, "calculate_metrics") EXCEPT
                !.items = parsed.items,
                !.metrics = <<calculate_metrics(parsed.items)>>]

\* snapshot_path = save_snapshot(items)
main_save(env, t, o) ==
    IF Raising(o)
    THEN o
    ELSE IF env.no_snapshot
    THEN [o EXCEPT !.run.no_snapshot = TRUE]
    ELSE [Called(o, "save_snapshot") EXCEPT
             !.exists = TRUE,
             !.files = WriteFile(o.files, strftime(t),
                                 json_dump(snapshot_data(t, o.items))),
             !.run.snapshot = strftime(t)]

\* sorted(snapshots_dir.glob("snapshot-*.json"))[-2]
SecondLatest(names) == LatestSnapshot(names \ {LatestSnapshot(names)})

\* load_latest_snapshot() and the comparison with the file before the latest
main_compare(env, o) ==
    LET previous_items == load_latest_snapshot(o.exists, o.files)
        o1 == [Called(o, "load_latest_snapshot") EXCEPT !.loaded = previous_items]
        snapshot_files == Glob(DOMAIN o.files)
        second == SecondLatest(snapshot_files)
        older == DeserializeAll(json_load(o.files[second]).items)
        o2 == [o1 EXCEPT !.run.previous_file = second]
        prev == [none |-> FALSE, items |-> older.items]
    IN IF Raising(o) \/ env.no_snapshot
       THEN o
       ELSE IF previous_items.exc # "none"
       THEN Fail(o1, "load_latest_snapshot", previous_items.exc)
       ELSE IF previous_items.none \/ Len(previous_items.items) = 0
       THEN o1
       ELSE IF Cardinality(snapshot_files) <= 1
       THEN o1
       ELSE IF older.exc # "none"
       THEN Fail(o2, "load_previous", older.exc)
       ELSE [Called(o2, "compare_snapshots") EXCEPT
                !.current = o.items,
                !.previous = prev,
                !.comparison = <<compare_snapshots(o.items, prev)>>]

\* get_renderer and renderer.render, then "return 0"
main_render(env, o) ==
    LET o1 == Called(o, "render")
    IN IF Raising(o)
       THEN o
       ELSE IF env.render # "ok"
       THEN Fail(o1, "render", env.render)
       ELSE [o1 EXCEPT !.run.report = TRUE, !.run.stage = "done"]

\* main(), from the configuration on: the statements of the try block in
\* order, each on the outcome of the one before; every exception is caught
\* and turned into exit code 1
main(env, t, o) ==
    CHOOSE r \in
        {main_render(env, o5) : o5 \in
        {main_compare(env, o4) : o4 \in
        {main_save(env, t, o3) : o3 \in
        {main_process(env, o2) : o2 \in
        {main_fetch(env, o1) : o1 \in
        {main_config(env, o)}}}}}} : TRUE

\* the ways the fetch ends
FetchOutcomes ==
    {[at |-> "none", exc |-> "none"],
     [at |-> "fetch_project_details", exc |-> "GitHubCLIError"],
     [at |-> "fetch_project_details", exc |-> "JSONDecodeError"],
     [at |-> "fetch_project_items", exc |-> "GitHubCLIError"],
     [at |-> "fetch_project_items", exc |-> "JSONDecodeError"]}

\* what the data source delivers: nothing, one record, two records, and a
\* record whose priority is a number
Raw_1 == RawRecord(TRUE, Value(Status_DONE), Value(Priority_P1), FullContent)
Raw_2 ==
    [RawRecord(TRUE, Value(Status_TODO), Value(Priority_FIRE), EmptyContent)
        EXCEPT !.id = PyStr(<<"2">>)]
Raw_bad == RawRecord(TRUE, Value(Status_TODO), PyInt(5), FullContent)
MainRawLists == {<<>>, <<Raw_1>>, <<Raw_1, Raw_2>>, <<Raw_bad>>}

\* a choice the run does not get to read is held at its first value
MainEnvs ==
    {env \in [config_valid : BOOLEAN, fetch : FetchOutcomes, raw : MainRawLists,
              no_snapshot : BOOLEAN, render : {"ok", "OSError"}] :
        /\ ~env.config_valid => env.fetch.at = "none"
        /\ (~env.config_valid \/ env.fetch.at # "none") => env.raw = <<>>
        /\ (~env.config_valid \/ env.fetch.at # "none" \/ env.raw = <<Raw_bad>>) =>
              ~env.no_snapshot /\ env.render = "ok"}

MaxRuns == 2   \* most runs of main

\* snapshot files from the seconds before Epoch, written by earlier runs,
\* and one whose item holds a status that is no enum value
Older == <<2025, 9, 9, 9, 9, 8>>
Oldest == <<2025, 9, 9, 9, 9, 7>>
OlderSnapshot ==
    (strftime(Older) :> json_dump(snapshot_data(Older, <<Item_A>>)))
TwoOlderSnapshots ==
    (strftime(Oldest) :> json_dump(snapshot_data(Oldest, <<Item_B>>)))
    @@ OlderSnapshot
OlderCorrupt ==
    (strftime(Older) :>
        [timestamp |-> Older,
         items |-> <<StoredItem(ToJson(PyStr(Chars_InvalidStatus)),
                                ToJson(Value(Priority_P1)))>>])

MainInit ==
    /\ now = Epoch
    /\ dir_exists \in BOOLEAN
    /\ files \in (IF dir_exists
                  THEN {NoFiles, OlderSnapshot, TwoOlderSnapshots, OlderCorrupt}
                  ELSE {NoFiles})
    /\ saves = <<>>
    /\ call = NoCall
    /\ ParserIdle
    /\ MetricsIdle
    /\ LoaderIdle
    /\ DiffIdle
    /\ RunIdle
    /\ WritersIdle
    /\ ColorIdle
    /\ V2Idle

\* the outcome a run starts from
Start ==
    [run |-> [NoRun EXCEPT !.number = run.number + 1,
                           !.stage = "config",
                           !.before = [exists |-> dir_exists, files |-> files]],
     exists |-> dir_exists, files |-> files,
     raw_items |-> raw_items, ret |-> ret, items |-> items,
     metrics |-> metrics, loaded |-> loaded,
     current |-> current, previous |-> previous, comparison |-> comparison]

\* one run of main; a snapshot it saves is recorded in saves
RunMain ==
    /\ run.number < MaxRuns
    /\ \E env \in MainEnvs :
          \E o \in {main(env, now, Start)} :
             /\ run' = o.run
             /\ dir_exists' = o.exists
             /\ files' = o.files
             /\ raw_items' = o.raw_items
             /\ ret' = o.ret
             /\ items' = o.items
             /\ metrics' = o.metrics
             /\ loaded' = o.loaded
             /\ current' = o.current
             /\ previous' = o.previous
             /\ comparison' = o.comparison
             /\ saves' = IF o.run.snapshot = <<>>
                         THEN saves
                         ELSE Append(saves, [time |-> now,
                                             filename |-> o.run.snapshot,
                                             items |-> o.items,
                                             before |-> files])
             /\ call' = [op |-> "main", arg |-> 0]
    /\ UNCHANGED <<now, writers, disk, workload, v2>>

MainNext == Tick \/ RunMain

MainSpec == MainInit /\ [][MainNext]_vars

AfterMain == call.op = "main"

\* C20: a run that ends in failure has written neither a report nor a
\* snapshot, and a run that ends in success has written the report.
C20_FailedRunWritesNothing ==
    AfterMain =>
        /\ run.exit_code # 0 =>
              /\ ~run.report
              /\ run.snapshot = <<>>
              /\ files = run.before.files
        /\ run.exit_code = 0 => run.report

\* the names of the calls the run made
CallsOf(r) == {r.calls[k] : k \in 1..Len(r.calls)}

\* C21: when the fetch fails (gh missing or exiting non-zero: GitHubCLIError;
\* a response that is not JSON: JSONDecodeError), main returns a non-zero
\* code and the run has called none of parse_items, calculate_metrics,
\* save_snapshot and render; nothing is written.
C21_FailedFetchStopsTheRun ==
    (AfterMain /\ run.fetch.at # "none") =>
        /\ run.exit_code # 0
        /\ CallsOf(run) \cap {"parse_items", "calculate_metrics", "save_snapshot",
                              "load_latest_snapshot", "compare_snapshots",
                              "render"} = {}
        /\ run.snapshot = <<>>
        /\ ~run.report
        /\ files = run.before.files

\* fetch_project_items ended in a JSONDecodeError in a directory that holds a
\* snapshot, and the run ended with exit code 1 at the fetch
C21_Witness ==
    /\ AfterMain
    /\ run.fetch = [at |-> "fetch_project_items", exc |-> "JSONDecodeError"]
    /\ run.exit_code = 1
    /\ run.stage = "fetch"
    /\ run.error = "JSONDecodeError"
    /\ files = OlderSnapshot

(***************************************************************************)
(* Two save_snapshot calls of concurrent runs on one directory.            *)
(* A file is the sequence of the units written to it: the opening with the *)
(* timestamp, one unit per item, and the closing.  Each call has its own   *)
(* file offset, which open(filepath, 'w') sets to 0; what json.dump hands  *)
(* over reaches the file in one or in several writes.                      *)
(***************************************************************************)
\* what json.dump writes for snapshot_data, unit by unit
Units(data) ==
    <<[unit |-> "open", timestamp |-> data.timestamp]>>
    \o [i \in 1..Len(data.items) |-> [unit |-> "item", data |-> data.items[i]]]
    \o <<[unit |-> "close"]>>

\* everything a call writes
Serialization(timestamp, its) == Units(json_dump(snapshot_data(timestamp, its)))

\* write(units) at offset off of a file; a gap before off reads as holes
WriteAt(content, off, units) ==
    [i \in 1..(IF Len(content) > off + Len(units)
               THEN Len(content) ELSE off + Len(units)) |->
        IF i > off /\ i <= off + Len(units) THEN units[i - off]
        ELSE IF i <= Len(content) THEN content[i]
        ELSE [unit |-> "hole"]]

ConcurrentInit ==
    /\ now = Epoch
    /\ dir_exists \in BOOLEAN
    /\ files = NoFiles
    /\ disk = NoFiles
    /\ writers \in [Writers -> {[NoWriter EXCEPT !.pc = "start", !.items = its] :
                                    its \in SnapshotLists}]
    /\ saves = <<>>
    /\ call = NoCall
    /\ ParserIdle
    /\ MetricsIdle
    /\ LoaderIdle
    /\ DiffIdle
    /\ RunIdle
    /\ ColorIdle
    /\ V2Idle

\* snapshot_path.mkdir(parents=True, exist_ok=True); timestamp = datetime.now()
ReadClock ==
    /\ \E w \in Writers :
          /\ writers[w].pc = "start"
          /\ writers' = [writers EXCEPT ![w].pc = "filename", ![w].timestamp = now]
    /\ dir_exists' = TRUE
    /\ UNCHANGED <<raw_items, call, ret, items, metrics, now, files, saves,
                 loaded, current, previous, comparison, run, disk, workload, v2>>

\* filename = timestamp.strftime("snapshot-%Y%m%d-%H%M%S.json")
DeriveFilename ==
    /\ \E w \in Writers :
          /\ writers[w].pc = "filename"
          /\ writers' = [writers EXCEPT ![w].pc = "open",
                                        ![w].filename = strftime(writers[w].timestamp)]
    /\ UNCHANGED <<raw_items, call, ret, items, metrics, now, dir_exists, files,
                 saves, loaded, current, previous, comparison, run, disk,
                 workload, v2>>

\* open(filepath, 'w'): the file is created, or emptied when it is there
OpenFile ==
    /\ \E w \in Writers :
          /\ writers[w].pc = "open"
          /\ disk' = WriteFile(disk, writers[w].filename, <<>>)
          /\ writers' = [writers EXCEPT ![w].pc = "write", ![w].written = 0]
    /\ UNCHANGED <<raw_items, call, ret, items, metrics, now, dir_exists, files,
                 saves, loaded, current, previous, comparison, run, workload, v2>>

\* json.dump(snapshot_data, f): some more of the units reach the file
WriteUnits ==
    /\ \E w \in Writers :
          LET all == Serialization(writers[w].timestamp, writers[w].items)
              f == writers[w].filename
          IN /\ writers[w].pc = "write"
             /\ \E k \in 1..(Len(all) - writers[w].written) :
                   /\ disk' = [disk EXCEPT ![f] =
                                 WriteAt(disk[f], writers[w].written,
                                         SubSeq(all, writers[w].written + 1,
                                                writers[w].written + k))]
                   /\ writers' = [writers EXCEPT ![w].written = @ + k]
    /\ UNCHANGED <<raw_items, call, ret, items, metrics, now, dir_exists, files,
                 saves, loaded, current, previous, comparison, run, workload, v2>>

\* the end of the with block: the file is closed once all is written
CloseFile ==
    /\ \E w \in Writers :
          /\ writers[w].pc = "write"
          /\ writers[w].written =
                Len(Serialization(writers[w].timestamp, writers[w].items))
          /\ writers' = [writers EXCEPT ![w].pc = "done"]
    /\ UNCHANGED <<raw_items, call, ret, items, metrics, now, dir_exists, files,
                 saves, loaded, current, previous, comparison, run, disk,
                 workload, v2>>

ConcurrentNext ==
    Tick \/ ReadClock \/ DeriveFilename \/ OpenFile \/ WriteUnits \/ CloseFile

ConcurrentSpec == ConcurrentInit /\ [][ConcurrentNext]_vars

BothDone == \A w \in Writers : writers[w].pc = "done"

\* C22: after two interleaved save_snapshot calls have finished, every file
\* of the directory holds the complete serialization of the item list of one
\* of the calls: nothing truncated, nothing mixed.
C22_ConcurrentSavesLeaveWholeFiles ==
    BothDone =>
        \A f \in DOMAIN disk :
            \E w \in Writers :
                disk[f] = Serialization(writers[w].timestamp, writers[w].items)

(***************************************************************************)
(* Report runs and the snapshot directory                                  *)
(***************************************************************************)
\* the snapshot files of the directory as it was before the run
SnapshotsBefore == Glob(DOMAIN run.before.files)
\* the snapshot files of the directory now
SnapshotsNow == Glob(DOMAIN files)
Compared == "compare_snapshots" \in CallsOf(run)

\* C23: in a run that saves a snapshot and makes a comparison, the previous
\* side is the item list of the file that was the latest snapshot before the
\* run's save: not the file the run wrote, and not an older one.
C23_PreviousIsLatestBeforeSave ==
    (AfterMain /\ run.snapshot # <<>> /\ Compared) =>
        /\ SnapshotsBefore # {}
        /\ run.previous_file = LatestSnapshot(SnapshotsBefore)
        /\ run.previous_file # run.snapshot
        /\ ~previous.none
        /\ Returned(previous.items) =
              DeserializeAll(
                  json_load(run.before.files[LatestSnapshot(SnapshotsBefore)]).items)

\* C24: in a run that saves a snapshot, compare_snapshots is called exactly
\* when the directory holds two snapshot files or more after the save; with
\* fewer the run makes no comparison and renders the report.
C24_ComparedIffTwoSnapshots ==
    (AfterMain /\ run.snapshot # <<>>) =>
        /\ Compared <=> Cardinality(SnapshotsNow) >= 2
        /\ Cardinality(SnapshotsNow) < 2 => "render" \in CallsOf(run)

\* C25: a successful run without --no-snapshot leaves exactly one snapshot
\* file more than there was and the others as they were; a successful run
\* with --no-snapshot saves and loads no snapshot and leaves the directory as
\* it was.
C25_OneSnapshotPerSuccessfulRun ==
    (AfterMain /\ run.exit_code = 0) =>
        IF run.no_snapshot
        THEN /\ files = run.before.files
             /\ dir_exists = run.before.exists
             /\ run.snapshot = <<>>
             /\ CallsOf(run) \cap {"save_snapshot", "load_latest_snapshot",
                                   "compare_snapshots"} = {}
        ELSE /\ Cardinality(SnapshotsNow \ SnapshotsBefore) = 1
             /\ SnapshotsNow \ SnapshotsBefore = {run.snapshot}
             /\ \A f \in DOMAIN run.before.files : files[f] = run.before.files[f]

(***************************************************************************)
(* More of the metrics engine                                              *)
(***************************************************************************)
\* p, in tenths of a percent, is num / den rounded to one decimal
IsRounded(p, num, den) ==
    /\ 2 * (p * den - num * 1000) <= den
    /\ 2 * (num * 1000 - p * den) <= den

\* the positions of the items that are not in Backlog
ActivePositions == {i \in 1..Len(items) : items[i].status # Status_BACKLOG}
\* the positions of the items that are Done
DonePositions == {i \in 1..Len(items) : items[i].status = Status_DONE}

\* C26: active_items is the number of items not in Backlog,
\* active_unplanned_count the number of those of priority Fire; the two
\* active percentages are taken of the active items, and are 0.0 when there
\* is no active item, also for a non-empty input.
C26_ActiveMetrics ==
    AfterCalculateMetrics =>
        LET m == metrics[1]
            active == Cardinality(ActivePositions)
            active_fire ==
                Cardinality({i \in ActivePositions : items[i].priority = Priority_FIRE})
            active_done == Cardinality(ActivePositions \cap DonePositions)
        IN /\ m.active_items = active
           /\ m.active_unplanned_count = active_fire
           /\ active > 0 =>
                 /\ IsRounded(m.active_completion_percentage, active_done, active)
                 /\ IsRounded(m.active_unplanned_percentage, active_fire, active)
           /\ active = 0 =>
                 /\ m.active_completion_percentage = 0
                 /\ m.active_unplanned_percentage = 0

\* two items, both in Backlog and one of them Fire: no active item and both
\* active percentages 0.0
C26_Witness ==
    /\ AfterCalculateMetrics
    /\ Len(items) = 2
    /\ \A i \in 1..2 : items[i].status = Status_BACKLOG
    /\ items[1].priority = Priority_FIRE
    /\ metrics[1].total_items = 2
    /\ metrics[1].active_items = 0
    /\ metrics[1].active_unplanned_count = 0
    /\ metrics[1].active_completion_percentage = 0
    /\ metrics[1].active_unplanned_percentage = 0

\* C27: the unplanned-done count is the number of items that are Done and
\* Fire, the percentage is that count relative to the Done items; both are 0
\* without a Done item, the percentage is 100.0 when every Done item is
\* Fire, and items that are not Done change neither value.
C27_UnplannedDoneStats ==
    AfterCalculateMetrics =>
        LET m == metrics[1]
            done == Cardinality(DonePositions)
            done_fire ==
                Cardinality({i \in DonePositions : items[i].priority = Priority_FIRE})
        IN /\ m.unplanned_done_count = done_fire
           /\ done = 0 => m.unplanned_done_percentage = 0
           /\ done > 0 => IsRounded(m.unplanned_done_percentage, done_fire, done)
           /\ (done > 0 /\ done_fire = done) => m.unplanned_done_percentage = 1000
           /\ <<m.unplanned_done_percentage, m.unplanned_done_count>> =
                 calculate_unplanned_done_stats(SelectSeq(items, IsDone))

\* a Done Fire item next to a Fire item that is not Done: count 1, 100.0
C27_Witness ==
    /\ AfterCalculateMetrics
    /\ Len(items) = 2
    /\ items[1].status = Status_DONE /\ items[1].priority = Priority_FIRE
    /\ items[2].status = Status_TODO /\ items[2].priority = Priority_FIRE
    /\ metrics[1].unplanned_done_count = 1
    /\ metrics[1].unplanned_done_percentage = 1000

\* C28: high_priority_not_started is the number of items of priority Fire or
\* P0 whose status is Backlog or Todo; P1 and P2 items, and items in any
\* other status, are not counted.
C28_HighPriorityNotStarted ==
    AfterCalculateMetrics =>
        metrics[1].high_priority_not_started =
            Cardinality({i \in 1..Len(items) :
                /\ items[i].priority = Priority_FIRE \/ items[i].priority = Priority_P0
                /\ items[i].status = Status_BACKLOG \/ items[i].status = Status_TODO})

\* a P0 item in Todo is counted, a P1 item in Todo is not
C28_Witness ==
    /\ AfterCalculateMetrics
    /\ Len(items) = 2
    /\ items[1].priority = Priority_P0 /\ items[1].status = Status_TODO
    /\ items[2].priority = Priority_P1 /\ items[2].status = Status_TODO
    /\ metrics[1].high_priority_not_started = 1

(***************************************************************************)
(* src/processor.py: the colour of a team member's workload                *)
(***************************************************************************)
MaxCount == 60   \* largest item count given to get_workload_color

\* get_workload_color with red from 10 on
get_workload_color_red_at_10(item_count) ==
    IF item_count >= 10 THEN "red"
    ELSE IF item_count >= 6 THEN "yellow"
    ELSE "green"

get_workload_color(item_count) ==
    IF item_count > 10 THEN "red"
    ELSE IF item_count >= 6 THEN "yellow"
    ELSE "green"

ColorInit ==
    /\ workload \in {[NoColor EXCEPT !.count = n] : n \in 0..MaxCount}
    /\ call = NoCall
    /\ ParserIdle
    /\ MetricsIdle
    /\ StoreIdle
    /\ LoaderIdle
    /\ DiffIdle
    /\ RunIdle
    /\ WritersIdle
    /\ V2Idle

CallGetWorkloadColor ==
    /\ workload' = [workload EXCEPT !.color = get_workload_color(workload.count)]
    /\ call' = [op |-> "get_workload_color", arg |-> workload.count]
    /\ UNCHANGED <<raw_items, ret, items, metrics, now, dir_exists, files, saves,
                 loaded, current, previous, comparison, run, writers, disk, v2>>

ColorNext == CallGetWorkloadColor

ColorSpec == ColorInit /\ [][ColorNext]_vars

AfterGetWorkloadColor == call.op = "get_workload_color"

\* C29: every count from 0 on gets exactly one colour: red above 10, yellow
\* from 6 to 10 with both ends, green below 6.
C29_WorkloadColorTiers ==
    AfterGetWorkloadColor =>
        /\ workload.color \in {"red", "yellow", "green"}
        /\ workload.color = "red" <=> workload.count > 10
        /\ workload.color = "yellow" <=> (6 <= workload.count /\ workload.count <= 10)
        /\ workload.color = "green" <=> workload.count < 6

\* the count 10 was given and yellow came back
C29_Witness ==
    /\ AfterGetWorkloadColor
    /\ workload.count = 10
    /\ workload.color = "yellow"

(***************************************************************************)
(* src/models_v2.py, src/processor_v2.py: the v2 pipeline.                 *)
(* models_v2.py declares Status and Priority with the members and values   *)
(* of models.py; a ProjectItemV2 has the ten fields of a ProjectItem and   *)
(* five timestamps.                                                        *)
(***************************************************************************)
StatusV2(v) == EnumLookup(StatusMembers, v)
PriorityV2(v) == EnumLookup(PriorityMembers, v)

\* ProjectItemV2.is_planned with P0 taken for unplanned too
is_planned_v2_below_P0(item) == item.priority \notin {Priority_FIRE, Priority_P0}

\* ProjectItemV2.is_planned
is_planned_v2(item) == item.priority # Priority_FIRE

\* status = Status(status_value), Status.BACKLOG on ValueError
parse_status_v2(raw_item) ==
    LET status_value == Get(raw_item.status, Value(Status_BACKLOG))
    IN IF StatusV2(status_value) # ValueError
       THEN StatusV2(status_value)
       ELSE Status_BACKLOG

\* priority = Priority(priority_value); on ValueError the fire or P2 fallback,
\* whose startswith call needs a str: "AttributeError" when it has none
parse_priority_v2(raw_item) ==
    LET priority_value == Get(raw_item.priority, Value(Priority_P2))
    IN IF PriorityV2(priority_value) # ValueError
       THEN PriorityV2(priority_value)
       ELSE IF ~Truthy(priority_value)
            THEN Priority_P2
            ELSE IF priority_value.t # "str"
                 THEN [t |-> "AttributeError", s |-> <<>>, n |-> 0]
                 ELSE IF StartsWith(priority_value.s, "P")
                         /\ Len(priority_value.s) > 2
                      THEN Priority_FIRE
                      ELSE Priority_P2

parse_item_v2(raw_item) ==
    LET content == IF raw_item.content.t = "absent"
                   THEN EmptyContent
                   ELSE raw_item.content
        status == parse_status_v2(raw_item)
        priority == parse_priority_v2(raw_item)
    IN IF priority.t = "AttributeError"
       THEN Raised("AttributeError")
       ELSE IF content.t # "dict"
            THEN Raised("AttributeError")
            ELSE Returned(<<[id |-> Get(raw_item.id, PyStr(<<>>)),
                             title |-> Get(raw_item.title, PyStr(<<>>)),
                             status |-> status,
                             priority |-> priority,
                             assignees |-> Get(raw_item.assignees, PyList(<<>>)),
                             estimate_hours |-> Get(raw_item.estimate, PyNone),
                             labels |-> Get(raw_item.labels, PyList(<<>>)),
                             url |-> Get(content.url, PyStr(<<>>)),
                             repository |-> Get(content.repository, PyStr(<<>>)),
                             issue_number |-> Get(content.number, PyNone),
                             project_created_at |->
                                 Get(raw_item.project_created_at, PyNone),
                             project_updated_at |->
                                 Get(raw_item.project_updated_at, PyNone),
                             issue_created_at |->
                                 Get(raw_item.issue_created_at, PyNone),
                             issue_updated_at |->
                                 Get(raw_item.issue_updated_at, PyNone),
                             issue_closed_at |->
                                 Get(raw_item.issue_closed_at, PyNone)]>>)

\* the ProjectMetrics returned "if not items": ten fields are given, the other
\* ten take the defaults of the dataclass
EmptyMetricsV2 ==
    [total_items |-> 0, total_estimate_hours |-> 0, completion_percentage |-> 0,
     planned_count |-> 0, unplanned_count |-> 0, unplanned_percentage |-> 0,
     high_priority_not_started |-> 0,
     items_by_status |-> EmptyDict, items_by_priority |-> EmptyDict,
     items_by_assignee |-> EmptyDict,
     active_items |-> 0, active_completion_percentage |-> 0,
     pending_items |-> 0, in_progress_items |-> 0,
     active_unplanned_percentage |-> 0,
     todo_items |-> 0, done_active_items |-> 0,
     unplanned_done_percentage |-> 0, unplanned_done_count |-> 0,
     active_unplanned_count |-> 0]

\* "for item in items:" filing each item in the three dicts
RECURSIVE GroupLoopV2(_, _)
GroupLoopV2(dicts, its) ==
    IF its = <<>>
    THEN dicts
    ELSE LET item == Head(its)
         IN GroupLoopV2(
                [items_by_status |->
                     GroupAdd(dicts.items_by_status, Value(item.status), item),
                 items_by_priority |->
                     GroupAdd(dicts.items_by_priority, Value(item.priority), item),
                 items_by_assignee |->
                     IF ~Truthy(item.assignees)
                     THEN GroupAdd(dicts.items_by_assignee, "Unassigned", item)
                     ELSE AddToAssignees(dicts.items_by_assignee,
                                         item.assignees.s, item)],
                Tail(its))

calculate_metrics_v2(its) ==
    IF its = <<>>
    THEN EmptyMetricsV2
    ELSE
    LET total_items == Len(its)
        done_items == Cardinality({i \in 1..Len(its) : its[i].status = Status_DONE})
        NotPlanned(item) == ~is_planned_v2(item)
        unplanned_count == Cardinality({i \in 1..Len(its) : NotPlanned(its[i])})
        dicts == GroupLoopV2([items_by_status |-> EmptyDict,
                              items_by_priority |-> EmptyDict,
                              items_by_assignee |-> EmptyDict], its)
        NotBacklog(item) == item.status # Status_BACKLOG
        active_items_list == SelectSeq(its, NotBacklog)
        active_items == Len(active_items_list)
        active_done ==
            Cardinality({i \in 1..Len(active_items_list) :
                            active_items_list[i].status = Status_DONE})
        active_unplanned_count ==
            Cardinality({i \in 1..Len(active_items_list) :
                            NotPlanned(active_items_list[i])})
        StatusDone(item) == item.status = Status_DONE
        done_items_list == SelectSeq(its, StatusDone)
        total_done == Len(done_items_list)
        unplanned_done_count ==
            Cardinality({i \in 1..Len(done_items_list) :
                            done_items_list[i].priority = Priority_FIRE})
    IN [total_items |-> total_items,
        total_estimate_hours |-> SumEstimates(its),
        completion_percentage |-> Percentage(done_items, total_items),
        planned_count |-> total_items - unplanned_count,
        unplanned_count |-> unplanned_count,
        unplanned_percentage |-> Percentage(unplanned_count, total_items),
        high_priority_not_started |->
            Cardinality({i \in 1..Len(its) :
                /\ its[i].priority \in {Priority_FIRE, Priority_P0}
                /\ its[i].status \in {Status_BACKLOG, Status_TODO}}),
        items_by_status |-> dicts.items_by_status,
        items_by_priority |-> dicts.items_by_priority,
        items_by_assignee |-> dicts.items_by_assignee,
        active_items |-> active_items,
        active_completion_percentage |-> Percentage(active_done, active_items),
        pending_items |->
            Cardinality({i \in 1..Len(its) : its[i].status = Status_PENDING}),
        in_progress_items |->
            Cardinality({i \in 1..Len(its) : its[i].status = Status_IN_PROGRESS}),
        active_unplanned_percentage |->
            Percentage(active_unplanned_count, active_items),
        active_unplanned_count |-> active_unplanned_count,
        todo_items |->
            Cardinality({i \in 1..Len(its) : its[i].status = Status_TODO}),
        done_active_items |->
            Cardinality({i \in 1..Len(its) : its[i].status = Status_DONE}),
        unplanned_done_percentage |-> Percentage(unplanned_done_count, total_done),
        unplanned_done_count |-> unplanned_done_count]

(***************************************************************************)
(* The two pipelines, applied to the same bounded inputs                   *)
(***************************************************************************)
MaxV2Items == 2    \* longest item list given to both metrics engines

Chars_date == <<"2", "0", "2", "5", "-", "0", "1", "-", "1", "5">>

\* what a raw record holds under each of its five timestamp keys: the keys may
\* be missing, and fetcher_v2 stores None or the date string under them
RawDateValues == {KeyAbsent, PyNone, PyStr(Chars_date)}

\* a raw record with the five timestamp keys of the GraphQL answer
RawRecordV2(r, d) ==
    [id |-> r.id, title |-> r.title, status |-> r.status, priority |-> r.priority,
     assignees |-> r.assignees, estimate |-> r.estimate, labels |-> r.labels,
     content |-> r.content,
     project_created_at |-> d, project_updated_at |-> d, issue_created_at |-> d,
     issue_updated_at |-> d, issue_closed_at |-> d]

\* the ProjectItemV2 carrying the fields of a ProjectItem
ItemV2(item, d) ==
    [id |-> item.id, title |-> item.title, status |-> item.status,
     priority |-> item.priority, assignees |-> item.assignees,
     estimate_hours |-> item.estimate_hours, labels |-> item.labels,
     url |-> item.url, repository |-> item.repository,
     issue_number |-> item.issue_number,
     project_created_at |-> Get(d, PyNone), project_updated_at |-> Get(d, PyNone),
     issue_created_at |-> Get(d, PyNone), issue_updated_at |-> Get(d, PyNone),
     issue_closed_at |-> Get(d, PyNone)]

\* the ten fields a ProjectItemV2 shares with a ProjectItem
CommonFields(item) ==
    [id |-> item.id, title |-> item.title, status |-> item.status,
     priority |-> item.priority, assignees |-> item.assignees,
     estimate_hours |-> item.estimate_hours, labels |-> item.labels,
     url |-> item.url, repository |-> item.repository,
     issue_number |-> item.issue_number]

\* who a ProjectItemV2 is assigned to, what it is estimated at, and what its
\* timestamps hold
V2Assignments ==
    {<<(<<>>), PyNone, KeyAbsent>>,
     <<(<<"alice", "bob">>), PyInt(3), PyStr(Chars_date)>>}

V2Pool ==
    {ItemV2(MkItem("1", st, pr, a[1], a[2]), a[3]) :
        st \in StatusMembers, pr \in PriorityMembers, a \in V2Assignments}

\* either one raw record for the two parsers, or a ProjectItemV2 list and the
\* ProjectItem list of the same items for the two engines
V2Init ==
    /\ \/ /\ raw_items \in {<<RawRecordV2(r, d)>> :
                              r \in RawRecords, d \in RawDateValues}
          /\ items = <<>>
          /\ v2 = NoV2
       \/ /\ raw_items = <<>>
          /\ \E its \in SeqsUpTo(V2Pool, MaxV2Items) :
                /\ v2 = [NoV2 EXCEPT !.items = its]
                /\ items = [i \in 1..Len(its) |-> CommonFields(its[i])]
    /\ call = NoCall
    /\ ret = Returned(<<>>)
    /\ metrics = <<>>
    /\ StoreIdle
    /\ LoaderIdle
    /\ DiffIdle
    /\ RunIdle
    /\ WritersIdle
    /\ ColorIdle

CallParseItemV2 ==
    /\ raw_items # <<>>
    /\ call' = [op |-> "parse_item_v2", arg |-> 1]
    /\ v2' = [v2 EXCEPT !.parsed = TRUE, !.ret = parse_item_v2(raw_items[1])]
    /\ UNCHANGED <<raw_items, ret, items, metrics, now, dir_exists, files, saves,
                 loaded, current, previous, comparison, run,
                 writers, disk, workload>>

CallCalculateMetricsV2 ==
    /\ call' = [op |-> "calculate_metrics_v2", arg |-> 0]
    /\ v2' = [v2 EXCEPT !.metrics = <<calculate_metrics_v2(v2.items)>>]
    /\ UNCHANGED <<raw_items, ret, items, metrics, now, dir_exists, files, saves,
                 loaded, current, previous, comparison, run,
                 writers, disk, workload>>

\* a raw record goes to the two parsers, an item list to the two engines
V2Next ==
    \/ CallParseItem
    \/ CallParseItemV2
    \/ (raw_items = <<>> /\ CallCalculateMetrics)
    \/ (raw_items = <<>> /\ CallCalculateMetricsV2)

V2Spec == V2Init /\ [][V2Next]_vars

\* parse_item and parse_item_v2 both answered for the one raw record
BothParsed == raw_items # <<>> /\ ret # Returned(<<>>) /\ v2.parsed

\* calculate_metrics and calculate_metrics_v2 both answered
BothMeasured == metrics # <<>> /\ v2.metrics # <<>>

\* a dict of ProjectItemV2 groups, each item cut down to the common fields
CommonGroups(grouped) ==
    [k \in DOMAIN grouped |->
        [i \in 1..Len(grouped[k]) |-> CommonFields(grouped[k][i])]]

NumberFields ==
    {"total_items", "total_estimate_hours", "completion_percentage",
     "planned_count", "unplanned_count", "unplanned_percentage",
     "high_priority_not_started", "active_items", "active_completion_percentage",
     "pending_items", "in_progress_items", "active_unplanned_percentage",
     "active_unplanned_count", "todo_items", "done_active_items",
     "unplanned_done_percentage", "unplanned_done_count"}

GroupFields == {"items_by_status", "items_by_priority", "items_by_assignee"}

\* C30: the two pipelines agree.  Given items with the same status, priority,
\* assignees and estimate, calculate_metrics_v2 returns the value
\* calculate_metrics returns in every numeric field and the same groups of the
\* same items in every grouping field, the empty list included; given the
\* same raw record, parse_item_v2 raises what parse_item raises or returns an
\* item with the same status and the same priority.
C30_V1AndV2Agree ==
    /\ BothMeasured =>
          /\ DOMAIN v2.metrics[1] = NumberFields \cup GroupFields
          /\ DOMAIN metrics[1] = NumberFields \cup GroupFields
          /\ \A f \in NumberFields : v2.metrics[1][f] = metrics[1][f]
          /\ \A f \in GroupFields : CommonGroups(v2.metrics[1][f]) = metrics[1][f]
    /\ BothParsed =>
          /\ v2.ret.exc = ret.exc
          /\ Len(v2.ret.items) = Len(ret.items)
          /\ \A i \in 1..Len(ret.items) :
                /\ v2.ret.items[i].status = ret.items[i].status
                /\ v2.ret.items[i].priority = ret.items[i].priority

\* both engines measured two dated items, one of them unplanned
C30_Witness ==
    /\ BothMeasured
    /\ Len(items) = 2
    /\ v2.items[1].issue_created_at = PyStr(Chars_date)
    /\ metrics[1].unplanned_count = 1
    /\ v2.metrics[1].unplanned_count = 1
    /\ v2.metrics[1].unplanned_percentage = 500
    /\ DOMAIN v2.metrics[1].items_by_assignee = {"alice", "bob", "Unassigned"}

====
